---- MODULE Spec2Model ----
(***************************************************************************)
(* Filipino Dama rules engine (src/utils/gameLogic.ts) and the host's      *)
(* move loop (executeMove), as a state machine over a board, the player to *)
(* move and the capture lock.                                              *)
(***************************************************************************)
EXTENDS Integers, Sequences, FiniteSets, TLC

VARIABLES board, turn, mustCaptureFrom, validMoves, winner, last, plies, quiet, query, mem

vars == <<board, turn, mustCaptureFrom, validMoves, winner, last, plies, quiet, query, mem>>

(***************************************************************************)
(* Data model (src/types.ts, src/constants.ts)                             *)
(***************************************************************************)
BOARD_SIZE == 8

PlayerColor == {"white", "black"}

\* A cell of BoardState is Piece | null; the null cell is this record.
Null == [color |-> "none", isKing |-> FALSE]

Piece(color, isKing) == [color |-> color, isKing |-> isKing]

Position(r, c) == [row |-> r, col |-> c]

\* Position | null: the empty tuple is null, <<p>> is the position p.
NoPos == <<>>

Move(from, to, captures) == [from |-> from, to |-> to, captures |-> captures]

Opponent(p) == IF p = "white" THEN "black" ELSE "white"

DIRECTIONS ==
  << [r |-> -1, c |-> -1], [r |-> -1, c |-> 1],
     [r |-> 1, c |-> -1], [r |-> 1, c |-> 1] >>

isValidPos(r, c) == r >= 0 /\ r < BOARD_SIZE /\ c >= 0 /\ c < BOARD_SIZE

Rows == 0 .. (BOARD_SIZE - 1)

EmptyBoard == [r \in Rows |-> [c \in Rows |-> Null]]

\* Mutant: the pieces are set on the light squares.
createInitialBoard_Light ==
  [r \in Rows |-> [c \in Rows |->
     IF r < 3 /\ (r + c) % 2 = 0 THEN Piece("black", FALSE)
     ELSE IF r >= 5 /\ (r + c) % 2 = 0 THEN Piece("white", FALSE)
     ELSE Null]]

createInitialBoard ==
  [r \in Rows |-> [c \in Rows |->
     IF r < 3 /\ (r + c) % 2 # 0 THEN Piece("black", FALSE)
     ELSE IF r >= 5 /\ (r + c) % 2 # 0 THEN Piece("white", FALSE)
     ELSE Null]]

(***************************************************************************)
(* Move generation: getMovesForPiece                                       *)
(***************************************************************************)
forwardDirs(piece) ==
  IF piece.color = "white"
  THEN << [r |-> -1, c |-> -1], [r |-> -1, c |-> 1] >>
  ELSE << [r |-> 1, c |-> -1], [r |-> 1, c |-> 1] >>

\* Mutant: the king steps one square only.
KingSlide_OneStep(b, pos, dir, r, c) ==
  IF ~isValidPos(r, c) THEN <<>>
  ELSE IF b[r][c] = Null THEN <<Move(pos, Position(r, c), <<>>)>> ELSE <<>>

\* The while loop of the flying king's slide in one direction, from (r, c).
RECURSIVE KingSlide(_, _, _, _, _)
KingSlide(b, pos, dir, r, c) ==
  IF ~isValidPos(r, c) THEN <<>>
  ELSE IF b[r][c] = Null
       THEN <<Move(pos, Position(r, c), <<>>)>>
              \o KingSlide(b, pos, dir, r + dir.r, c + dir.c)
       ELSE <<>>

\* Mutant: the man steps straight ahead instead of diagonally.
ManStep_Straight(b, pos, dir) ==
  LET r == pos.row + dir.r
      c == pos.col
  IN IF isValidPos(r, c) /\ b[r][c] = Null
     THEN <<Move(pos, Position(r, c), <<>>)>>
     ELSE <<>>

\* One man step in one direction.
ManStep(b, pos, dir) ==
  LET r == pos.row + dir.r
      c == pos.col + dir.c
  IN IF isValidPos(r, c) /\ b[r][c] = Null
     THEN <<Move(pos, Position(r, c), <<>>)>>
     ELSE <<>>

\* Mutant: the piece jumped may be of the man's own colour.
ManCapture_JumpsFriend(b, pos, piece, dir) ==
  LET midR == pos.row + dir.r
      midC == pos.col + dir.c
      destR == pos.row + (dir.r * 2)
      destC == pos.col + (dir.c * 2)
  IN IF isValidPos(destR, destC)
     THEN IF b[midR][midC] # Null /\ b[destR][destC] = Null
          THEN <<Move(pos, Position(destR, destC), <<Position(midR, midC)>>)>>
          ELSE <<>>
     ELSE <<>>

\* One man capture in one forward direction.
ManCapture(b, pos, piece, dir) ==
  LET midR == pos.row + dir.r
      midC == pos.col + dir.c
      destR == pos.row + (dir.r * 2)
      destC == pos.col + (dir.c * 2)
  IN IF isValidPos(destR, destC)
     THEN IF b[midR][midC] # Null
             /\ b[midR][midC].color # piece.color
             /\ b[destR][destC] = Null
          THEN <<Move(pos, Position(destR, destC), <<Position(midR, midC)>>)>>
          ELSE <<>>
     ELSE <<>>

\* Mutant: a second opposing piece does not stop the scan.
RECURSIVE KingCaptureScan_JumpsTwo(_, _, _, _, _, _, _)
KingCaptureScan_JumpsTwo(b, pos, piece, dir, r, c, enemyPos) ==
  IF ~isValidPos(r, c) THEN <<>>
  ELSE IF b[r][c] = Null
       THEN (IF enemyPos # NoPos
             THEN <<Move(pos, Position(r, c), <<enemyPos[1]>>)>>
             ELSE <<>>)
            \o KingCaptureScan_JumpsTwo(b, pos, piece, dir, r + dir.r, c + dir.c,
                                        enemyPos)
       ELSE IF b[r][c].color = piece.color THEN <<>>
            ELSE KingCaptureScan_JumpsTwo(b, pos, piece, dir, r + dir.r, c + dir.c,
                                          <<Position(r, c)>>)

\* The while loop of the flying king's capture scan in one direction.
\* enemyPos is NoPos until an enemy has been met.
RECURSIVE KingCaptureScan(_, _, _, _, _, _, _)
KingCaptureScan(b, pos, piece, dir, r, c, enemyPos) ==
  IF ~isValidPos(r, c) THEN <<>>
  ELSE IF b[r][c] = Null
       THEN (IF enemyPos # NoPos
             THEN <<Move(pos, Position(r, c), <<enemyPos[1]>>)>>
             ELSE <<>>)
            \o KingCaptureScan(b, pos, piece, dir, r + dir.r, c + dir.c, enemyPos)
       ELSE IF b[r][c].color = piece.color THEN <<>>
            ELSE IF enemyPos # NoPos THEN <<>>
                 ELSE KingCaptureScan(b, pos, piece, dir, r + dir.r, c + dir.c,
                                      <<Position(r, c)>>)

getMovesForPiece(b, pos, piece) ==
  LET fwd == forwardDirs(piece)
      D == DIRECTIONS
      nonCapture ==
        IF piece.isKing
        THEN KingSlide(b, pos, D[1], pos.row + D[1].r, pos.col + D[1].c)
             \o KingSlide(b, pos, D[2], pos.row + D[2].r, pos.col + D[2].c)
             \o KingSlide(b, pos, D[3], pos.row + D[3].r, pos.col + D[3].c)
             \o KingSlide(b, pos, D[4], pos.row + D[4].r, pos.col + D[4].c)
        ELSE ManStep(b, pos, fwd[1]) \o ManStep(b, pos, fwd[2])
      capture ==
        IF ~piece.isKing
        THEN ManCapture(b, pos, piece, fwd[1]) \o ManCapture(b, pos, piece, fwd[2])
        ELSE KingCaptureScan(b, pos, piece, D[1], pos.row + D[1].r, pos.col + D[1].c, NoPos)
             \o KingCaptureScan(b, pos, piece, D[2], pos.row + D[2].r, pos.col + D[2].c, NoPos)
             \o KingCaptureScan(b, pos, piece, D[3], pos.row + D[3].r, pos.col + D[3].c, NoPos)
             \o KingCaptureScan(b, pos, piece, D[4], pos.row + D[4].r, pos.col + D[4].c, NoPos)
  IN nonCapture \o capture

(***************************************************************************)
(* Chain enumeration: getMaxCaptureChain                                   *)
(***************************************************************************)
SelectCaptures(moves) == SelectSeq(moves, LAMBDA m : Len(m.captures) > 0)

\* The scratch board of one simulated capture.
SimulateCapture(b, move) ==
  LET b1 == [b EXCEPT ![move.captures[1].row][move.captures[1].col] = Null]
      b2 == [b1 EXCEPT ![move.to.row][move.to.col] = b1[move.from.row][move.from.col]]
  IN [b2 EXCEPT ![move.from.row][move.from.col] = Null]

reachedEnd(piece, move) ==
  (piece.color = "white" /\ move.to.row = 0)
  \/ (piece.color # "white" /\ move.to.row = BOARD_SIZE - 1)

RECURSIVE getMaxCaptureChain(_, _, _)
RECURSIVE ChainLoop(_, _, _, _, _)

\* Mutant: a man that jumps onto its far row goes on capturing as a king.
RECURSIVE ChainLoop_KingContinues(_, _, _, _, _)
ChainLoop_KingContinues(b, piece, captureMoves, i, currentChain) ==
  IF i > Len(captureMoves) THEN <<>>
  ELSE
    LET move == captureMoves[i]
        moved == SimulateCapture(b, move)
        tempBoard ==
          IF ~piece.isKing /\ reachedEnd(piece, move)
          THEN [moved EXCEPT ![move.to.row][move.to.col].isKing = TRUE]
          ELSE moved
        chain == Append(currentChain, move)
        subChains == getMaxCaptureChain(tempBoard, move.to, chain)
        here == IF Len(subChains) = 0
                THEN << [moves |-> chain, count |-> Len(currentChain) + 1] >>
                ELSE subChains
    IN here \o ChainLoop_KingContinues(b, piece, captureMoves, i + 1, currentChain)

\* Mutant: a chain's count leaves out its last capture.
RECURSIVE ChainLoop_CountsPrefix(_, _, _, _, _)
ChainLoop_CountsPrefix(b, piece, captureMoves, i, currentChain) ==
  IF i > Len(captureMoves) THEN <<>>
  ELSE
    LET move == captureMoves[i]
        tempBoard == SimulateCapture(b, move)
        chain == Append(currentChain, move)
        here ==
          IF ~piece.isKing /\ reachedEnd(piece, move)
          THEN << [moves |-> chain, count |-> Len(currentChain)] >>
          ELSE LET subChains == getMaxCaptureChain(tempBoard, move.to, chain)
               IN IF Len(subChains) = 0
                  THEN << [moves |-> chain, count |-> Len(currentChain)] >>
                  ELSE subChains
    IN here \o ChainLoop_CountsPrefix(b, piece, captureMoves, i + 1, currentChain)

\* The for loop over captureMoves, from index i on.
ChainLoop(b, piece, captureMoves, i, currentChain) ==
  IF i > Len(captureMoves) THEN <<>>
  ELSE
    LET move == captureMoves[i]
        tempBoard == SimulateCapture(b, move)
        chain == Append(currentChain, move)
        here ==
          IF ~piece.isKing /\ reachedEnd(piece, move)
          THEN << [moves |-> chain, count |-> Len(currentChain) + 1] >>
          ELSE LET subChains == getMaxCaptureChain(tempBoard, move.to, chain)
               IN IF Len(subChains) = 0
                  THEN << [moves |-> chain, count |-> Len(currentChain) + 1] >>
                  ELSE subChains
    IN here \o ChainLoop(b, piece, captureMoves, i + 1, currentChain)

getMaxCaptureChain(b, pos, currentChain) ==
  LET piece == b[pos.row][pos.col]
  IN IF piece = Null THEN <<>>
     ELSE LET captureMoves == SelectCaptures(getMovesForPiece(b, pos, piece))
          IN IF Len(captureMoves) = 0
             THEN IF Len(currentChain) > 0
                  THEN << [moves |-> currentChain, count |-> Len(currentChain)] >>
                  ELSE <<>>
             ELSE ChainLoop(b, piece, captureMoves, 1, currentChain)

(***************************************************************************)
(* Top-level legality rule: getValidMovesForPlayer                         *)
(***************************************************************************)
\* The cells in the order of the nested row and column loops.
AllCells ==
  [k \in 1 .. (BOARD_SIZE * BOARD_SIZE) |->
     Position((k - 1) \div BOARD_SIZE, (k - 1) % BOARD_SIZE)]

\* The row-major scan collecting the player's pieces.
PiecesOf(b, player) ==
  LET own == SelectSeq(AllCells, LAMBDA p : b[p.row][p.col].color = player)
  IN [i \in 1 .. Len(own) |-> [pos |-> own[i], piece |-> b[own[i].row][own[i].col]]]

\* Mutant: the lock does not restrict the pieces.
targetPieces_IgnoresLock(pieces, lock) == pieces

\* pieces.filter(p => p.pos is mustCaptureFrom), or all pieces without a lock.
targetPieces(pieces, lock) ==
  IF lock # NoPos
  THEN SelectSeq(pieces, LAMBDA p : p.pos.row = lock[1].row /\ p.pos.col = lock[1].col)
  ELSE pieces

\* captureSequences: the chains of every target piece, in loop order.
RECURSIVE captureSequences(_, _, _)
captureSequences(b, targets, i) ==
  IF i > Len(targets) THEN <<>>
  ELSE getMaxCaptureChain(b, targets[i].pos, <<>>) \o captureSequences(b, targets, i + 1)

\* maxCaptureCount: the running maximum of chain.count, starting at 0.
RECURSIVE maxCaptureCount(_, _)
maxCaptureCount(seqs, i) ==
  IF i > Len(seqs) THEN 0
  ELSE LET rest == maxCaptureCount(seqs, i + 1)
       IN IF seqs[i].count > rest THEN seqs[i].count ELSE rest

MoveKey(m) == <<m.from.row, m.from.col, m.to.row, m.to.col>>

\* distinctMoves: a Map keyed by from-to; a key keeps the place of its first
\* insertion and the value of its last.
RECURSIVE distinctMoves(_, _, _)
distinctMoves(seqs, i, acc) ==
  IF i > Len(seqs) THEN acc
  ELSE LET firstMove == seqs[i].moves[1]
           key == MoveKey(firstMove)
           at == {j \in 1 .. Len(acc) : MoveKey(acc[j]) = key}
       IN IF at = {}
          THEN distinctMoves(seqs, i + 1, Append(acc, firstMove))
          ELSE distinctMoves(seqs, i + 1,
                 [j \in 1 .. Len(acc) |-> IF j \in at THEN firstMove ELSE acc[j]])

\* The simple moves of every piece (taken when nothing captures).
RECURSIVE simpleMoves(_, _, _)
simpleMoves(b, pieces, i) ==
  IF i > Len(pieces) THEN <<>>
  ELSE getMovesForPiece(b, pieces[i].pos, pieces[i].piece) \o simpleMoves(b, pieces, i + 1)

\* Mutant: the maximum is taken per piece instead of over all pieces.
bestSequences_PerPiece(seqs, max) ==
  SelectSeq(seqs, LAMBDA s :
    \A t \in {seqs[i] : i \in 1 .. Len(seqs)} :
      t.moves[1].from = s.moves[1].from => t.count <= s.count)

\* Mutant: every chain is kept, not only the longest.
bestSequences_All(seqs, max) == seqs

bestSequences(seqs, max) == SelectSeq(seqs, LAMBDA s : s.count = max)

\* Mutant: the missing early return lets the simple moves follow the captures.
getValidMovesForPlayer_FallThrough(b, player, lock) ==
  LET pieces == PiecesOf(b, player)
      seqs == captureSequences(b, targetPieces(pieces, lock), 1)
      max == maxCaptureCount(seqs, 1)
  IN (IF max > 0 THEN distinctMoves(bestSequences(seqs, max), 1, <<>>) ELSE <<>>)
     \o (IF lock = NoPos THEN simpleMoves(b, pieces, 1) ELSE <<>>)

\* Mutant: a lock without captures falls back to the simple moves.
getValidMovesForPlayer_FallBack(b, player, lock) ==
  LET pieces == PiecesOf(b, player)
      seqs == captureSequences(b, targetPieces(pieces, lock), 1)
      max == maxCaptureCount(seqs, 1)
  IN IF max > 0
     THEN distinctMoves(bestSequences(seqs, max), 1, <<>>)
     ELSE simpleMoves(b, pieces, 1)

getValidMovesForPlayer(b, player, lock) ==
  LET pieces == PiecesOf(b, player)
      seqs == captureSequences(b, targetPieces(pieces, lock), 1)
      max == maxCaptureCount(seqs, 1)
  IN IF max > 0
     THEN distinctMoves(bestSequences(seqs, max), 1, <<>>)
     ELSE IF lock = NoPos THEN simpleMoves(b, pieces, 1) ELSE <<>>

(***************************************************************************)
(* Move application: applyMove                                             *)
(***************************************************************************)
\* Mutant: the captured pieces stay on the board.
RemoveCaptured_KeepsPieces(b, captures, i) == b

\* newBoard[pos] = null for every pos of move.captures.
RECURSIVE RemoveCaptured(_, _, _)
RemoveCaptured(b, captures, i) ==
  IF i > Len(captures) THEN b
  ELSE RemoveCaptured([b EXCEPT ![captures[i].row][captures[i].col] = Null],
                      captures, i + 1)

\* Mutant: the promotion rows of the two colours are exchanged.
isPromotion_SwappedRows(movingPiece, move) ==
  ~movingPiece.isKing
  /\ ((movingPiece.color = "white" /\ move.to.row = BOARD_SIZE - 1)
      \/ (movingPiece.color = "black" /\ move.to.row = 0))

\* Mutant: any piece reaching its far row is promoted, a king included.
isPromotion_IgnoresKing(movingPiece, move) ==
  (movingPiece.color = "white" /\ move.to.row = 0)
  \/ (movingPiece.color = "black" /\ move.to.row = BOARD_SIZE - 1)

isPromotion(movingPiece, move) ==
  ~movingPiece.isKing
  /\ ((movingPiece.color = "white" /\ move.to.row = 0)
      \/ (movingPiece.color = "black" /\ move.to.row = BOARD_SIZE - 1))

\* Mutant: a promoting capture may continue the turn.
applyMove_NoPromotedCheck(b, move) ==
  LET movingPiece == b[move.from.row][move.from.col]
      b1 == [b EXCEPT ![move.to.row][move.to.col] = movingPiece]
      b2 == [b1 EXCEPT ![move.from.row][move.from.col] = Null]
      captured == Len(move.captures) > 0
      b3 == IF captured THEN RemoveCaptured(b2, move.captures, 1) ELSE b2
      promoted == isPromotion(movingPiece, move)
      newBoard == IF promoted
                  THEN [b3 EXCEPT ![move.to.row][move.to.col].isKing = TRUE]
                  ELSE b3
      more == captured
              /\ Len(getValidMovesForPlayer(newBoard, movingPiece.color, <<move.to>>)) > 0
  IN [ board |-> newBoard,
       turnEnded |-> ~more,
       mustCaptureFrom |-> IF more THEN <<move.to>> ELSE NoPos,
       promoted |-> promoted,
       captured |-> captured ]

\* Mutant: a move that captured nothing may continue the turn.
applyMove_NoCapturedCheck(b, move) ==
  LET movingPiece == b[move.from.row][move.from.col]
      b1 == [b EXCEPT ![move.to.row][move.to.col] = movingPiece]
      b2 == [b1 EXCEPT ![move.from.row][move.from.col] = Null]
      captured == Len(move.captures) > 0
      b3 == IF captured THEN RemoveCaptured(b2, move.captures, 1) ELSE b2
      promoted == isPromotion(movingPiece, move)
      newBoard == IF promoted
                  THEN [b3 EXCEPT ![move.to.row][move.to.col].isKing = TRUE]
                  ELSE b3
      more == ~promoted
              /\ Len(getValidMovesForPlayer(newBoard, movingPiece.color, <<move.to>>)) > 0
  IN [ board |-> newBoard,
       turnEnded |-> ~more,
       mustCaptureFrom |-> IF more THEN <<move.to>> ELSE NoPos,
       promoted |-> promoted,
       captured |-> captured ]

applyMove(b, move) ==
  LET movingPiece == b[move.from.row][move.from.col]
      b1 == [b EXCEPT ![move.to.row][move.to.col] = movingPiece]
      b2 == [b1 EXCEPT ![move.from.row][move.from.col] = Null]
      captured == Len(move.captures) > 0
      b3 == IF captured THEN RemoveCaptured(b2, move.captures, 1) ELSE b2
      promoted == isPromotion(movingPiece, move)
      newBoard == IF promoted
                  THEN [b3 EXCEPT ![move.to.row][move.to.col].isKing = TRUE]
                  ELSE b3
      more == captured /\ ~promoted
              /\ Len(getValidMovesForPlayer(newBoard, movingPiece.color, <<move.to>>)) > 0
  IN [ board |-> newBoard,
       turnEnded |-> ~more,
       mustCaptureFrom |-> IF more THEN <<move.to>> ELSE NoPos,
       promoted |-> promoted,
       captured |-> captured ]

\* Mutant: the colour without pieces is reported as the winner.
checkWinner_Swapped(b) ==
  LET whiteCount == Len(PiecesOf(b, "white"))
      blackCount == Len(PiecesOf(b, "black"))
  IN IF whiteCount = 0 THEN "white"
     ELSE IF blackCount = 0 THEN "black"
     ELSE "null"

checkWinner(b) ==
  LET whiteCount == Len(PiecesOf(b, "white"))
      blackCount == Len(PiecesOf(b, "black"))
  IN IF whiteCount = 0 THEN "black"
     ELSE IF blackCount = 0 THEN "white"
     ELSE "null"

(***************************************************************************)
(* The same operations over object identity.  A heap H holds the board     *)
(* arrays (H.grids) and the piece objects (H.objs); a cell of a board      *)
(* array is a reference into H.objs, or NullRef.  A board is named by its  *)
(* index in H.grids.  These follow every allocation and every write of     *)
(* applyMove and getMaxCaptureChain.                                       *)
(***************************************************************************)
NullRef == 0

IndexOf(seq, x) == CHOOSE k \in 1 .. Len(seq) : seq[k] = x

\* The heap holding board b alone, as board 1.
NewHeap(b) ==
  LET own == SelectSeq(AllCells, LAMBDA p : b[p.row][p.col] # Null)
  IN [ grids |-> << [r \in Rows |-> [c \in Rows |->
                       IF b[r][c] = Null THEN NullRef
                       ELSE IndexOf(own, Position(r, c))]] >>,
       objs |-> [k \in 1 .. Len(own) |-> b[own[k].row][own[k].col]] ]

\* The value of board g: every reference read through the heap.
View(H, g) ==
  [r \in Rows |-> [c \in Rows |->
     IF H.grids[g][r][c] = NullRef THEN Null ELSE H.objs[H.grids[g][r][c]]]]

\* Mutant: the rows are copied, the piece objects are shared.
CopyBoard_Shallow(H, g) ==
  [ heap |-> [H EXCEPT !.grids = Append(H.grids, H.grids[g])],
    board |-> Len(H.grids) + 1 ]

\* board.map(row => row.map(p => p ? { ...p } : null)): a new array with a
\* new object for every piece.
CopyBoard(H, g) ==
  LET old == H.grids[g]
      own == SelectSeq(AllCells, LAMBDA p : old[p.row][p.col] # NullRef)
      base == Len(H.objs)
  IN [ heap |->
         [ grids |-> Append(H.grids,
                       [r \in Rows |-> [c \in Rows |->
                          IF old[r][c] = NullRef THEN NullRef
                          ELSE base + IndexOf(own, Position(r, c))]]),
           objs |-> H.objs \o [k \in 1 .. Len(own) |->
                                 H.objs[old[own[k].row][own[k].col]]] ],
       board |-> Len(H.grids) + 1 ]

\* board[pos.row][pos.col] = ref
SetCell(H, g, pos, ref) == [H EXCEPT !.grids[g][pos.row][pos.col] = ref]

\* piece.isKing = true
SetKing(H, ref) == [H EXCEPT !.objs[ref].isKing = TRUE]

\* F(e), with e evaluated once: a statement's result bound to a name.
Bind(e, F(_)) == CHOOSE out \in { F(x) : x \in {e} } : TRUE

RECURSIVE getMaxCaptureChainH(_, _, _, _)
RECURSIVE ChainLoopH(_, _, _, _, _, _)

ChainLoopH(H, g, ref, captureMoves, i, currentChain) ==
  IF i > Len(captureMoves) THEN [heap |-> H, results |-> <<>>]
  ELSE
    LET move == captureMoves[i]
        piece == H.objs[ref]
        chain == Append(currentChain, move)
        single == << [moves |-> chain, count |-> Len(currentChain) + 1] >>
        Simulated(copy) ==
          LET tempBoard == copy.board
              H1 == SetCell(copy.heap, tempBoard, move.captures[1], NullRef)
              H2 == SetCell(H1, tempBoard, move.to,
                            H1.grids[tempBoard][move.from.row][move.from.col])
          IN [heap |-> SetCell(H2, tempBoard, move.from, NullRef), board |-> tempBoard]
        Recurse(temp) ==
          IF ~piece.isKing /\ reachedEnd(piece, move)
          THEN [heap |-> temp.heap, results |-> single]
          ELSE Bind(getMaxCaptureChainH(temp.heap, temp.board, move.to, chain),
                    LAMBDA sub :
                      [ heap |-> sub.heap,
                        results |-> IF Len(sub.results) = 0 THEN single
                                    ELSE sub.results ])
    IN Bind(CopyBoard(H, g), LAMBDA copy :
       Bind(Simulated(copy), LAMBDA temp :
       Bind(Recurse(temp), LAMBDA here :
       Bind(ChainLoopH(here.heap, g, ref, captureMoves, i + 1, currentChain),
            LAMBDA rest :
              [heap |-> rest.heap, results |-> here.results \o rest.results]))))

getMaxCaptureChainH(H, g, pos, currentChain) ==
  LET ref == H.grids[g][pos.row][pos.col]
  IN IF ref = NullRef THEN [heap |-> H, results |-> <<>>]
     ELSE Bind(SelectCaptures(getMovesForPiece(View(H, g), pos, H.objs[ref])),
               LAMBDA captureMoves :
                 IF Len(captureMoves) = 0
                 THEN [ heap |-> H,
                        results |->
                          IF Len(currentChain) > 0
                          THEN << [moves |-> currentChain,
                                   count |-> Len(currentChain)] >>
                          ELSE <<>> ]
                 ELSE ChainLoopH(H, g, ref, captureMoves, 1, currentChain))

\* pieces: the player's pieces with the object each cell refers to.
PiecesOfH(H, g, player) ==
  LET own == SelectSeq(AllCells, LAMBDA p :
               /\ H.grids[g][p.row][p.col] # NullRef
               /\ H.objs[H.grids[g][p.row][p.col]].color = player)
  IN [i \in 1 .. Len(own) |->
        [pos |-> own[i], ref |-> H.grids[g][own[i].row][own[i].col]]]

RECURSIVE captureSequencesH(_, _, _, _)
captureSequencesH(H, g, targets, i) ==
  IF i > Len(targets) THEN [heap |-> H, results |-> <<>>]
  ELSE Bind(getMaxCaptureChainH(H, g, targets[i].pos, <<>>), LAMBDA one :
       Bind(captureSequencesH(one.heap, g, targets, i + 1), LAMBDA rest :
         [heap |-> rest.heap, results |-> one.results \o rest.results]))

RECURSIVE simpleMovesH(_, _, _, _)
simpleMovesH(H, g, pieces, i) ==
  IF i > Len(pieces) THEN <<>>
  ELSE getMovesForPiece(View(H, g), pieces[i].pos, H.objs[pieces[i].ref])
       \o simpleMovesH(H, g, pieces, i + 1)

getValidMovesForPlayerH(H, g, player, lock) ==
  Bind(PiecesOfH(H, g, player), LAMBDA pieces :
  Bind(captureSequencesH(H, g, targetPieces(pieces, lock), 1), LAMBDA seqs :
    LET max == maxCaptureCount(seqs.results, 1)
    IN [ heap |-> seqs.heap,
         moves |-> IF max > 0
                   THEN distinctMoves(bestSequences(seqs.results, max), 1, <<>>)
                   ELSE IF lock = NoPos
                        THEN simpleMovesH(seqs.heap, g, pieces, 1)
                        ELSE <<>> ]))

RECURSIVE RemoveCapturedH(_, _, _, _)
RemoveCapturedH(H, g, captures, i) ==
  IF i > Len(captures) THEN H
  ELSE RemoveCapturedH(SetCell(H, g, captures[i], NullRef), g, captures, i + 1)

applyMoveH(H, g, move) ==
  LET captured == Len(move.captures) > 0
      Moved(copy) ==
        LET newBoard == copy.board
            movingPiece == copy.heap.grids[newBoard][move.from.row][move.from.col]
            H1 == SetCell(copy.heap, newBoard, move.to, movingPiece)
            H2 == SetCell(H1, newBoard, move.from, NullRef)
            H3 == IF captured
                  THEN RemoveCapturedH(H2, newBoard, move.captures, 1)
                  ELSE H2
            promoted == isPromotion(H3.objs[movingPiece], move)
        IN [ heap |-> IF promoted THEN SetKing(H3, movingPiece) ELSE H3,
             board |-> newBoard,
             movingPiece |-> movingPiece,
             promoted |-> promoted ]
      Continuation(done) ==
        IF captured /\ ~done.promoted
        THEN getValidMovesForPlayerH(done.heap, done.board,
                                     done.heap.objs[done.movingPiece].color,
                                     <<move.to>>)
        ELSE [heap |-> done.heap, moves |-> <<>>]
  IN Bind(CopyBoard(H, g), LAMBDA copy :
     Bind(Moved(copy), LAMBDA done :
     Bind(Continuation(done), LAMBDA nextMoves :
       [ heap |-> nextMoves.heap,
         board |-> done.board,
         turnEnded |-> Len(nextMoves.moves) = 0,
         mustCaptureFrom |-> IF Len(nextMoves.moves) > 0 THEN <<move.to>> ELSE NoPos,
         promoted |-> done.promoted,
         captured |-> captured ])))

(***************************************************************************)
(* The computer player (ai.ts).  Scores are kept in tenths, so that the    *)
(* positional bonus times 0.1 stays an integer.                            *)
(***************************************************************************)
KING_VALUE == 50

MAN_VALUE == 10

DEPTH == 3

POSITIONAL_BONUS ==
  << <<0, 0, 0, 0, 0, 0, 0, 0>>,
     <<4, 2, 4, 2, 4, 2, 4, 2>>,
     <<2, 3, 2, 3, 2, 3, 2, 3>>,
     <<2, 4, 2, 4, 2, 4, 2, 4>>,
     <<2, 4, 2, 4, 2, 4, 2, 4>>,
     <<2, 3, 2, 3, 2, 3, 2, 3>>,
     <<4, 2, 4, 2, 4, 2, 4, 2>>,
     <<4, 4, 4, 4, 4, 4, 4, 4>> >>

\* 10000, in tenths.
WinScore == 10 * 10000

\* Larger than every score.
Infinity == WinScore + 1

Max(a, b) == IF a >= b THEN a ELSE b

Min(a, b) == IF a <= b THEN a ELSE b

PieceValue(b, pos) ==
  LET piece == b[pos.row][pos.col]
      rowIdx == IF piece.color = "black" THEN pos.row ELSE 7 - pos.row
  IN IF piece.isKing THEN 10 * KING_VALUE
     ELSE 10 * MAN_VALUE + POSITIONAL_BONUS[rowIdx + 1][pos.col + 1]

RECURSIVE ScoreFrom(_, _, _, _)
ScoreFrom(b, cells, i, playerColor) ==
  IF i > Len(cells) THEN 0
  ELSE (IF b[cells[i].row][cells[i].col].color = playerColor
        THEN PieceValue(b, cells[i])
        ELSE 0 - PieceValue(b, cells[i]))
       + ScoreFrom(b, cells, i + 1, playerColor)

evaluateBoard(b, playerColor) ==
  LET won == checkWinner(b)
  IN IF won = playerColor THEN WinScore
     ELSE IF won # "null" /\ won # "draw" THEN 0 - WinScore
     ELSE ScoreFrom(b, SelectSeq(AllCells, LAMBDA p : b[p.row][p.col] # Null),
                    1, playerColor)

RECURSIVE minimaxH(_, _, _, _, _, _, _, _, _)
RECURSIVE MaxLoop(_, _, _, _, _, _, _, _, _, _)
RECURSIVE MinLoop(_, _, _, _, _, _, _, _, _, _)

\* for (const move of moves) of the maximizing branch.
MaxLoop(H, g, moves, i, depth, alpha, beta, currentPlayer, rootPlayer, maxEval) ==
  IF i > Len(moves) THEN [heap |-> H, value |-> maxEval]
  ELSE
    Bind(applyMoveH(H, g, moves[i]), LAMBDA res :
      LET nextPlayer == IF res.turnEnded THEN Opponent(currentPlayer)
                        ELSE currentPlayer
          nextIsMaximizing == ~res.turnEnded
      IN Bind(minimaxH(res.heap, res.board, depth - 1, alpha, beta,
                       nextIsMaximizing, res.mustCaptureFrom, nextPlayer,
                       rootPlayer),
              LAMBDA sub :
                LET newMax == Max(maxEval, sub.value)
                    newAlpha == Max(alpha, sub.value)
                IN IF beta <= newAlpha THEN [heap |-> sub.heap, value |-> newMax]
                   ELSE MaxLoop(sub.heap, g, moves, i + 1, depth, newAlpha, beta,
                                currentPlayer, rootPlayer, newMax)))

\* for (const move of moves) of the minimizing branch.
MinLoop(H, g, moves, i, depth, alpha, beta, currentPlayer, rootPlayer, minEval) ==
  IF i > Len(moves) THEN [heap |-> H, value |-> minEval]
  ELSE
    Bind(applyMoveH(H, g, moves[i]), LAMBDA res :
      LET nextPlayer == IF res.turnEnded THEN Opponent(currentPlayer)
                        ELSE currentPlayer
          nextIsMaximizing == res.turnEnded
      IN Bind(minimaxH(res.heap, res.board, depth - 1, alpha, beta,
                       nextIsMaximizing, res.mustCaptureFrom, nextPlayer,
                       rootPlayer),
              LAMBDA sub :
                LET newMin == Min(minEval, sub.value)
                    newBeta == Min(beta, sub.value)
                IN IF newBeta <= alpha THEN [heap |-> sub.heap, value |-> newMin]
                   ELSE MinLoop(sub.heap, g, moves, i + 1, depth, alpha, newBeta,
                                currentPlayer, rootPlayer, newMin)))

minimaxH(H, g, depth, alpha, beta, isMaximizing, lock, currentPlayer, rootPlayer) ==
  Bind(View(H, g), LAMBDA b :
    IF depth = 0 \/ checkWinner(b) # "null"
    THEN [heap |-> H, value |-> evaluateBoard(b, rootPlayer)]
    ELSE
      Bind(getValidMovesForPlayerH(H, g, currentPlayer, lock), LAMBDA valid :
        IF Len(valid.moves) = 0
        THEN [ heap |-> valid.heap,
               value |-> IF isMaximizing THEN 0 - WinScore ELSE WinScore ]
        ELSE IF isMaximizing
             THEN MaxLoop(valid.heap, g, valid.moves, 1, depth, alpha, beta,
                          currentPlayer, rootPlayer, 0 - Infinity)
             ELSE MinLoop(valid.heap, g, valid.moves, 1, depth, alpha, beta,
                          currentPlayer, rootPlayer, Infinity)))

\* for (const move of shuffledMoves): the best move so far, as a sequence
\* of at most one move.
RECURSIVE BestLoop(_, _, _, _, _, _, _)
BestLoop(H, g, shuffledMoves, i, player, bestMove, bestValue) ==
  IF i > Len(shuffledMoves) THEN [heap |-> H, move |-> bestMove]
  ELSE
    LET move == shuffledMoves[i]
    IN Bind(applyMoveH(H, g, move), LAMBDA res :
         LET nextPlayer == IF res.turnEnded THEN Opponent(player) ELSE player
             isMaximizing == ~res.turnEnded
         IN Bind(minimaxH(res.heap, res.board, DEPTH - 1, 0 - Infinity, Infinity,
                          isMaximizing, res.mustCaptureFrom, nextPlayer, player),
                 LAMBDA sub :
                   IF sub.value > bestValue
                   THEN BestLoop(sub.heap, g, shuffledMoves, i + 1, player,
                                 <<move>>, sub.value)
                   ELSE BestLoop(sub.heap, g, shuffledMoves, i + 1, player,
                                 bestMove, bestValue)))

\* order is the permutation the shuffle produced.
getBestMoveH(H, g, player, lock, order) ==
  Bind(getValidMovesForPlayerH(H, g, player, lock), LAMBDA valid :
    LET moves == valid.moves
    IN IF Len(moves) = 0 THEN [heap |-> valid.heap, move |-> <<>>]
       ELSE IF Len(moves) = 1 THEN [heap |-> valid.heap, move |-> <<moves[1]>>]
       ELSE BestLoop(valid.heap, g, [k \in 1 .. Len(moves) |-> moves[order[k]]],
                     1, player, <<>>, 0 - Infinity))

(***************************************************************************)
(* minimax and getBestMove on board values, with a record of the search:   *)
(* nodes holds every minimax call with the value it returned, calls holds  *)
(* every call made from a loop, with the arguments it passed.              *)
(***************************************************************************)
SearchNode(b, depth, isMaximizing, lock, currentPlayer, rootPlayer, value) ==
  [ board |-> b, depth |-> depth, isMaximizing |-> isMaximizing, lock |-> lock,
    player |-> currentPlayer, root |-> rootPlayer, value |-> value ]

\* depth is the caller's remaining depth (DEPTH in getBestMove), nextDepth
\* the depth argument of the call.
SearchCall(b, move, currentPlayer, isMaximizing, nextPlayer, nextIsMaximizing, nextLock, depth, nextDepth) ==
  [ board |-> b, move |-> move, player |-> currentPlayer,
    isMaximizing |-> isMaximizing, nextPlayer |-> nextPlayer,
    nextIsMaximizing |-> nextIsMaximizing, nextLock |-> nextLock,
    depth |-> depth, nextDepth |-> nextDepth ]

RECURSIVE minimax(_, _, _, _, _, _, _, _)
RECURSIVE MaximizingLoop(_, _, _, _, _, _, _, _, _)
RECURSIVE MinimizingLoop(_, _, _, _, _, _, _, _, _)

\* Mutant: the role flips after every move, also when the turn continues.
MaximizingLoop_AlwaysFlips(b, moves, i, depth, alpha, beta, currentPlayer, rootPlayer, maxEval) ==
  IF i > Len(moves) THEN [value |-> maxEval, nodes |-> {}, calls |-> {}]
  ELSE
    Bind(applyMove(b, moves[i]), LAMBDA res :
      LET nextPlayer == IF res.turnEnded THEN Opponent(currentPlayer)
                        ELSE currentPlayer
          nextIsMaximizing == FALSE
          call == SearchCall(b, moves[i], currentPlayer, TRUE, nextPlayer,
                             nextIsMaximizing, res.mustCaptureFrom,
                             depth, depth - 1)
      IN Bind(minimax(res.board, depth - 1, alpha, beta, nextIsMaximizing,
                      res.mustCaptureFrom, nextPlayer, rootPlayer),
              LAMBDA sub :
                LET newMax == Max(maxEval, sub.value)
                    newAlpha == Max(alpha, sub.value)
                IN IF beta <= newAlpha
                   THEN [ value |-> newMax, nodes |-> sub.nodes,
                          calls |-> sub.calls \cup {call} ]
                   ELSE Bind(MaximizingLoop(b, moves, i + 1, depth, newAlpha, beta,
                                            currentPlayer, rootPlayer, newMax),
                             LAMBDA rest :
                               [ value |-> rest.value,
                                 nodes |-> sub.nodes \cup rest.nodes,
                                 calls |-> sub.calls \cup rest.calls \cup {call} ])))

\* for (const move of moves) of the maximizing branch.
MaximizingLoop(b, moves, i, depth, alpha, beta, currentPlayer, rootPlayer, maxEval) ==
  IF i > Len(moves) THEN [value |-> maxEval, nodes |-> {}, calls |-> {}]
  ELSE
    Bind(applyMove(b, moves[i]), LAMBDA res :
      LET nextPlayer == IF res.turnEnded THEN Opponent(currentPlayer)
                        ELSE currentPlayer
          nextIsMaximizing == ~res.turnEnded
          call == SearchCall(b, moves[i], currentPlayer, TRUE, nextPlayer,
                             nextIsMaximizing, res.mustCaptureFrom,
                             depth, depth - 1)
      IN Bind(minimax(res.board, depth - 1, alpha, beta, nextIsMaximizing,
                      res.mustCaptureFrom, nextPlayer, rootPlayer),
              LAMBDA sub :
                LET newMax == Max(maxEval, sub.value)
                    newAlpha == Max(alpha, sub.value)
                IN IF beta <= newAlpha
                   THEN [ value |-> newMax, nodes |-> sub.nodes,
                          calls |-> sub.calls \cup {call} ]
                   ELSE Bind(MaximizingLoop(b, moves, i + 1, depth, newAlpha, beta,
                                            currentPlayer, rootPlayer, newMax),
                             LAMBDA rest :
                               [ value |-> rest.value,
                                 nodes |-> sub.nodes \cup rest.nodes,
                                 calls |-> sub.calls \cup rest.calls \cup {call} ])))

\* Mutant: the cut-off test is reversed, alpha <= beta.
MinimizingLoop_CutsEarly(b, moves, i, depth, alpha, beta, currentPlayer, rootPlayer, minEval) ==
  IF i > Len(moves) THEN [value |-> minEval, nodes |-> {}, calls |-> {}]
  ELSE
    Bind(applyMove(b, moves[i]), LAMBDA res :
      LET nextPlayer == IF res.turnEnded THEN Opponent(currentPlayer)
                        ELSE currentPlayer
          nextIsMaximizing == res.turnEnded
          call == SearchCall(b, moves[i], currentPlayer, FALSE, nextPlayer,
                             nextIsMaximizing, res.mustCaptureFrom,
                             depth, depth - 1)
      IN Bind(minimax(res.board, depth - 1, alpha, beta, nextIsMaximizing,
                      res.mustCaptureFrom, nextPlayer, rootPlayer),
              LAMBDA sub :
                LET newMin == Min(minEval, sub.value)
                    newBeta == Min(beta, sub.value)
                IN IF alpha <= newBeta
                   THEN [ value |-> newMin, nodes |-> sub.nodes,
                          calls |-> sub.calls \cup {call} ]
                   ELSE Bind(MinimizingLoop(b, moves, i + 1, depth, alpha, newBeta,
                                            currentPlayer, rootPlayer, newMin),
                             LAMBDA rest :
                               [ value |-> rest.value,
                                 nodes |-> sub.nodes \cup rest.nodes,
                                 calls |-> sub.calls \cup rest.calls \cup {call} ])))

\* Mutant: the player changes after every move, also inside a multi-jump.
MinimizingLoop_AlwaysSwitches(b, moves, i, depth, alpha, beta, currentPlayer, rootPlayer, minEval) ==
  IF i > Len(moves) THEN [value |-> minEval, nodes |-> {}, calls |-> {}]
  ELSE
    Bind(applyMove(b, moves[i]), LAMBDA res :
      LET nextPlayer == Opponent(currentPlayer)
          nextIsMaximizing == res.turnEnded
          call == SearchCall(b, moves[i], currentPlayer, FALSE, nextPlayer,
                             nextIsMaximizing, res.mustCaptureFrom,
                             depth, depth - 1)
      IN Bind(minimax(res.board, depth - 1, alpha, beta, nextIsMaximizing,
                      res.mustCaptureFrom, nextPlayer, rootPlayer),
              LAMBDA sub :
                LET newMin == Min(minEval, sub.value)
                    newBeta == Min(beta, sub.value)
                IN IF newBeta <= alpha
                   THEN [ value |-> newMin, nodes |-> sub.nodes,
                          calls |-> sub.calls \cup {call} ]
                   ELSE Bind(MinimizingLoop(b, moves, i + 1, depth, alpha, newBeta,
                                            currentPlayer, rootPlayer, newMin),
                             LAMBDA rest :
                               [ value |-> rest.value,
                                 nodes |-> sub.nodes \cup rest.nodes,
                                 calls |-> sub.calls \cup rest.calls \cup {call} ])))

\* Mutant: a hop that does not end the turn does not use up depth.
MinimizingLoop_HopsAreFree(b, moves, i, depth, alpha, beta, currentPlayer, rootPlayer, minEval) ==
  IF i > Len(moves) THEN [value |-> minEval, nodes |-> {}, calls |-> {}]
  ELSE
    Bind(applyMove(b, moves[i]), LAMBDA res :
      LET nextPlayer == IF res.turnEnded THEN Opponent(currentPlayer)
                        ELSE currentPlayer
          nextIsMaximizing == res.turnEnded
          nextDepth == IF res.turnEnded THEN depth - 1 ELSE depth
          call == SearchCall(b, moves[i], currentPlayer, FALSE, nextPlayer,
                             nextIsMaximizing, res.mustCaptureFrom,
                             depth, nextDepth)
      IN Bind(minimax(res.board, nextDepth, alpha, beta, nextIsMaximizing,
                      res.mustCaptureFrom, nextPlayer, rootPlayer),
              LAMBDA sub :
                LET newMin == Min(minEval, sub.value)
                    newBeta == Min(beta, sub.value)
                IN IF newBeta <= alpha
                   THEN [ value |-> newMin, nodes |-> sub.nodes,
                          calls |-> sub.calls \cup {call} ]
                   ELSE Bind(MinimizingLoop(b, moves, i + 1, depth, alpha, newBeta,
                                            currentPlayer, rootPlayer, newMin),
                             LAMBDA rest :
                               [ value |-> rest.value,
                                 nodes |-> sub.nodes \cup rest.nodes,
                                 calls |-> sub.calls \cup rest.calls \cup {call} ])))

\* for (const move of moves) of the minimizing branch.
MinimizingLoop(b, moves, i, depth, alpha, beta, currentPlayer, rootPlayer, minEval) ==
  IF i > Len(moves) THEN [value |-> minEval, nodes |-> {}, calls |-> {}]
  ELSE
    Bind(applyMove(b, moves[i]), LAMBDA res :
      LET nextPlayer == IF res.turnEnded THEN Opponent(currentPlayer)
                        ELSE currentPlayer
          nextIsMaximizing == res.turnEnded
          call == SearchCall(b, moves[i], currentPlayer, FALSE, nextPlayer,
                             nextIsMaximizing, res.mustCaptureFrom,
                             depth, depth - 1)
      IN Bind(minimax(res.board, depth - 1, alpha, beta, nextIsMaximizing,
                      res.mustCaptureFrom, nextPlayer, rootPlayer),
              LAMBDA sub :
                LET newMin == Min(minEval, sub.value)
                    newBeta == Min(beta, sub.value)
                IN IF newBeta <= alpha
                   THEN [ value |-> newMin, nodes |-> sub.nodes,
                          calls |-> sub.calls \cup {call} ]
                   ELSE Bind(MinimizingLoop(b, moves, i + 1, depth, alpha, newBeta,
                                            currentPlayer, rootPlayer, newMin),
                             LAMBDA rest :
                               [ value |-> rest.value,
                                 nodes |-> sub.nodes \cup rest.nodes,
                                 calls |-> sub.calls \cup rest.calls \cup {call} ])))

\* Mutant: a player without moves scores as a loss for the root player,
\* whoever is starved.
minimax_StarvedAlwaysLoses(b, depth, alpha, beta, isMaximizing, lock, currentPlayer, rootPlayer) ==
  LET Leaf(v) ==
        [ value |-> v,
          nodes |-> { SearchNode(b, depth, isMaximizing, lock, currentPlayer,
                                 rootPlayer, v) },
          calls |-> {} ]
  IN IF depth = 0 \/ checkWinner(b) # "null"
     THEN Leaf(evaluateBoard(b, rootPlayer))
     ELSE
       Bind(getValidMovesForPlayer(b, currentPlayer, lock), LAMBDA moves :
         IF Len(moves) = 0
         THEN Leaf(0 - WinScore)
         ELSE Bind(IF isMaximizing
                   THEN MaximizingLoop(b, moves, 1, depth, alpha, beta,
                                       currentPlayer, rootPlayer, 0 - Infinity)
                   ELSE MinimizingLoop(b, moves, 1, depth, alpha, beta,
                                       currentPlayer, rootPlayer, Infinity),
                   LAMBDA done :
                     [ value |-> done.value,
                       nodes |-> done.nodes
                                   \cup { SearchNode(b, depth, isMaximizing, lock,
                                                     currentPlayer, rootPlayer,
                                                     done.value) },
                       calls |-> done.calls ]))

minimax(b, depth, alpha, beta, isMaximizing, lock, currentPlayer, rootPlayer) ==
  LET Leaf(v) ==
        [ value |-> v,
          nodes |-> { SearchNode(b, depth, isMaximizing, lock, currentPlayer,
                                 rootPlayer, v) },
          calls |-> {} ]
  IN IF depth = 0 \/ checkWinner(b) # "null"
     THEN Leaf(evaluateBoard(b, rootPlayer))
     ELSE
       Bind(getValidMovesForPlayer(b, currentPlayer, lock), LAMBDA moves :
         IF Len(moves) = 0
         THEN Leaf(IF isMaximizing THEN 0 - WinScore ELSE WinScore)
         ELSE Bind(IF isMaximizing
                   THEN MaximizingLoop(b, moves, 1, depth, alpha, beta,
                                       currentPlayer, rootPlayer, 0 - Infinity)
                   ELSE MinimizingLoop(b, moves, 1, depth, alpha, beta,
                                       currentPlayer, rootPlayer, Infinity),
                   LAMBDA done :
                     [ value |-> done.value,
                       nodes |-> done.nodes
                                   \cup { SearchNode(b, depth, isMaximizing, lock,
                                                     currentPlayer, rootPlayer,
                                                     done.value) },
                       calls |-> done.calls ]))

\* for (const move of shuffledMoves): the best move so far, as a sequence
\* of at most one move.
RECURSIVE ShuffledLoop(_, _, _, _, _, _)
ShuffledLoop(b, shuffledMoves, i, player, bestMove, bestValue) ==
  IF i > Len(shuffledMoves) THEN [move |-> bestMove, nodes |-> {}, calls |-> {}]
  ELSE
    LET move == shuffledMoves[i]
    IN Bind(applyMove(b, move), LAMBDA res :
         LET nextPlayer == IF res.turnEnded THEN Opponent(player) ELSE player
             isMaximizing == ~res.turnEnded
             call == SearchCall(b, move, player, TRUE, nextPlayer, isMaximizing,
                                res.mustCaptureFrom, DEPTH, DEPTH - 1)
         IN Bind(minimax(res.board, DEPTH - 1, 0 - Infinity, Infinity,
                         isMaximizing, res.mustCaptureFrom, nextPlayer, player),
                 LAMBDA sub :
                   Bind(IF sub.value > bestValue
                        THEN ShuffledLoop(b, shuffledMoves, i + 1, player,
                                          <<move>>, sub.value)
                        ELSE ShuffledLoop(b, shuffledMoves, i + 1, player,
                                          bestMove, bestValue),
                        LAMBDA rest :
                          [ move |-> rest.move,
                            nodes |-> sub.nodes \cup rest.nodes,
                            calls |-> sub.calls \cup rest.calls \cup {call} ])))

\* Mutant: a single legal move is searched like any other.
getBestMove_AlwaysSearches(b, player, lock, order) ==
  Bind(getValidMovesForPlayer(b, player, lock), LAMBDA moves :
    IF Len(moves) = 0 THEN [move |-> <<>>, nodes |-> {}, calls |-> {}]
    ELSE ShuffledLoop(b, [k \in 1 .. Len(moves) |-> moves[order[k]]],
                      1, player, <<>>, 0 - Infinity))

\* order is the permutation the shuffle produced.
getBestMove(b, player, lock, order) ==
  Bind(getValidMovesForPlayer(b, player, lock), LAMBDA moves :
    IF Len(moves) = 0 THEN [move |-> <<>>, nodes |-> {}, calls |-> {}]
    ELSE IF Len(moves) = 1 THEN [move |-> <<moves[1]>>, nodes |-> {}, calls |-> {}]
    ELSE ShuffledLoop(b, [k \in 1 .. Len(moves) |-> moves[order[k]]],
                      1, player, <<>>, 0 - Infinity))

(***************************************************************************)
(* Bounds of the model                                                     *)
(***************************************************************************)
\* Moves played from a starting position.
MaxPlies == 3

\* Non-capture moves among them.
MaxQuiet == 1

\* Squares the starting positions place white and black pieces on, and the
\* squares whose piece may start as a king.
WhiteSquares == { Position(4, 3), Position(2, 1), Position(6, 5) }

BlackSquares ==
  { Position(3, 2), Position(3, 4), Position(1, 2), Position(1, 4), Position(1, 6) }

KingSquares == { Position(4, 3), Position(3, 4) }

\* Capture locks the pure function is queried with: piece squares of both
\* colours, a landing square and positions outside the grid.
LockInputs ==
  { Position(4, 3), Position(2, 1), Position(3, 4), Position(2, 5),
    Position(-1, 2), Position(3, 8) }

PlaceBoard(W, WK, B, BK) ==
  [r \in Rows |-> [c \in Rows |->
     IF Position(r, c) \in W THEN Piece("white", Position(r, c) \in WK)
     ELSE IF Position(r, c) \in B THEN Piece("black", Position(r, c) \in BK)
     ELSE Null]]

StartBoards ==
  { PlaceBoard(q[1], q[2], q[3], q[4]) :
      q \in { x \in (SUBSET WhiteSquares) \X (SUBSET KingSquares)
                     \X (SUBSET BlackSquares) \X (SUBSET KingSquares) :
                /\ x[1] # {}
                /\ x[2] \subseteq x[1]
                /\ x[3] # {}
                /\ x[4] \subseteq x[3] } }

(***************************************************************************)
(* The host (App: executeMove, the game-loop effect) and the state machine *)
(***************************************************************************)
NoLast == [kind |-> "none"]

NoQuery == [asked |-> FALSE]

NoMem == [kind |-> "none"]

\* The global maximum chain count of a player's target pieces.
GlobalMax(b, player, lock) ==
  maxCaptureCount(captureSequences(b, targetPieces(PiecesOf(b, player), lock), 1), 1)

\* Mutant: the player without moves is declared the winner.
GameLoop_MoverWins(b, t, lock) ==
  LET moves == getValidMovesForPlayer(b, t, lock)
  IN [ validMoves |-> moves,
       winner |-> IF Len(moves) = 0 THEN t ELSE "null" ]

\* The game-loop effect: the legal moves of the player to move, and the
\* opponent as winner when there are none.
GameLoop(b, t, lock) ==
  LET moves == getValidMovesForPlayer(b, t, lock)
  IN [ validMoves |-> moves,
       winner |-> IF Len(moves) = 0 THEN Opponent(t) ELSE "null" ]

Init ==
  /\ board \in StartBoards
  /\ turn \in PlayerColor
  /\ mustCaptureFrom = NoPos
  /\ \E loop \in {GameLoop(board, turn, mustCaptureFrom)} :
       /\ validMoves = loop.validMoves
       /\ winner = loop.winner
  /\ last = NoLast
  /\ plies = 0
  /\ quiet = 0
  /\ query = NoQuery
  /\ mem = NoMem

\* Mutant: the turn passes after every move.
NextTurn_AlwaysPasses(res) == Opponent(turn)

NextTurn(res) == IF res.turnEnded THEN Opponent(turn) ELSE turn

\* What is remembered of the move just played: the call's inputs and flags,
\* and for the running turn the maximum chain count at its start (target),
\* the captures taken and the opposing pieces at its start.
Remember(move, res) ==
  [ kind |-> "move",
    before |-> board,
    player |-> turn,
    lock |-> mustCaptureFrom,
    move |-> move,
    mover |-> board[move.from.row][move.from.col],
    turnEnded |-> res.turnEnded,
    mustCaptureFrom |-> res.mustCaptureFrom,
    promoted |-> res.promoted,
    captured |-> res.captured,
    target |-> IF mustCaptureFrom = NoPos
               THEN GlobalMax(board, turn, NoPos)
               ELSE last.target,
    taken |-> IF mustCaptureFrom = NoPos
              THEN Len(move.captures)
              ELSE last.taken + Len(move.captures),
    oppAtStart |-> IF mustCaptureFrom = NoPos
                   THEN Len(PiecesOf(board, Opponent(turn)))
                   ELSE last.oppAtStart ]

\* executeMove(move), followed by the game-loop effect on the new state.
executeMove(move) ==
  \E res \in {applyMove(board, move)} :
    \E loop \in {GameLoop(res.board, NextTurn(res), res.mustCaptureFrom)} :
      /\ board' = res.board
      /\ mustCaptureFrom' = res.mustCaptureFrom
      /\ turn' = NextTurn(res)
      /\ validMoves' = loop.validMoves
      /\ winner' = loop.winner
      /\ last' = Remember(move, res)

\* The player to move plays one of the legal moves shown.
Play ==
  /\ winner = "null"
  /\ plies < MaxPlies
  /\ query = NoQuery
  /\ \E move \in {validMoves[i] : i \in 1 .. Len(validMoves)} :
       /\ Len(move.captures) = 0 => quiet < MaxQuiet
       /\ executeMove(move)
       /\ quiet' = IF Len(move.captures) = 0 THEN quiet + 1 ELSE quiet
  /\ plies' = plies + 1
  /\ UNCHANGED <<query, mem>>

\* A call of getValidMovesForPlayer(board, turn, lock) with a lock the host
\* does not hold: a stale lock, an empty square, a position off the grid.
Query ==
  /\ plies = 0
  /\ query = NoQuery
  /\ \E lock \in LockInputs :
       query' = [ asked |-> TRUE, lock |-> <<lock>>,
                  moves |-> getValidMovesForPlayer(board, turn, <<lock>>) ]
  /\ UNCHANGED <<board, turn, mustCaptureFrom, validMoves, winner, last, plies, quiet, mem>>

Next == Play \/ Query

Spec == Init /\ [][Next]_vars

(***************************************************************************)
(* A game played on board objects.  Every board object that was handed to  *)
(* applyMove, getValidMovesForPlayer or getBestMove stays in mem.inputs,   *)
(* with the value it had when it was first handed over; mem.heap is what   *)
(* can still be reached from those boards after each call.                 *)
(***************************************************************************)
FramePlies == 2

FrameWhite == { Position(4, 3), Position(2, 1) }

FrameBlack == { Position(3, 2), Position(1, 2), Position(1, 4) }

\* Boards of men only; kings arise by promotion.
FrameBoards ==
  { PlaceBoard(W, {}, B, {}) :
      W \in (SUBSET FrameWhite) \ {{}}, B \in (SUBSET FrameBlack) \ {{}} }

\* The orders [...moves].sort(() => Math.random() - 0.5) is taken to
\* produce: the rotations of the list and of its reverse, which is every
\* order of a list of up to three moves.
Shuffles(n) ==
  { [k \in 1 .. n |-> ((k - 1 + d) % n) + 1] : d \in 0 .. (n - 1) }
  \cup { [k \in 1 .. n |-> n - ((k - 1 + d) % n)] : d \in 0 .. (n - 1) }

Refs(H, g) == { H.grids[g][r][c] : r, c \in Rows } \ {NullRef}

\* What is left of heap H for a holder of the boards roots: those boards,
\* renumbered 1 .. Len(roots), and the piece objects they refer to.
\* Everything else a call allocated is garbage.
Reachable(H, roots) ==
  LET live == UNION { Refs(H, roots[i]) : i \in 1 .. Len(roots) }
      keep == SelectSeq([k \in 1 .. Len(H.objs) |-> k], LAMBDA k : k \in live)
  IN [ grids |-> [i \in 1 .. Len(roots) |->
                    [r \in Rows |-> [c \in Rows |->
                       IF H.grids[roots[i]][r][c] = NullRef THEN NullRef
                       ELSE IndexOf(keep, H.grids[roots[i]][r][c])]]],
       objs |-> [j \in 1 .. Len(keep) |-> H.objs[keep[j]]] ]

Handles(n) == [i \in 1 .. n |-> i]

\* The board in play is the newest input.
Current == Len(mem.inputs)

GameLoopH(H, g, t, lock) ==
  LET valid == getValidMovesForPlayerH(H, g, t, lock)
  IN [ heap |-> valid.heap,
       validMoves |-> valid.moves,
       winner |-> IF Len(valid.moves) = 0 THEN Opponent(t) ELSE "null" ]

FrameInit ==
  /\ board \in FrameBoards
  /\ turn \in PlayerColor
  /\ mustCaptureFrom = NoPos
  /\ \E loop \in {GameLoopH(NewHeap(board), 1, turn, NoPos)} :
       /\ validMoves = loop.validMoves
       /\ winner = loop.winner
       /\ mem = [ kind |-> "frame",
                  heap |-> Reachable(loop.heap, <<1>>),
                  inputs |-> <<board>>,
                  best |-> <<>>, asked |-> FALSE, searched |-> FALSE ]
  /\ last = NoLast
  /\ plies = 0
  /\ quiet = 0
  /\ query = NoQuery

\* applyMove(board, move) on the board object in play, then the game-loop
\* effect getValidMovesForPlayer(newBoard, nextTurn, lock) on the result.
executeMoveH(move) ==
  \E res \in {applyMoveH(mem.heap, Current, move)} :
    \E loop \in {GameLoopH(res.heap, res.board, NextTurn(res), res.mustCaptureFrom)} :
      /\ board' = View(res.heap, res.board)
      /\ mustCaptureFrom' = res.mustCaptureFrom
      /\ turn' = NextTurn(res)
      /\ validMoves' = loop.validMoves
      /\ winner' = loop.winner
      /\ last' = Remember(move, res)
      /\ mem' = [ kind |-> "frame",
                  heap |-> Reachable(loop.heap, Append(Handles(Current), res.board)),
                  inputs |-> Append(mem.inputs, View(res.heap, res.board)),
                  best |-> <<>>, asked |-> FALSE, searched |-> FALSE ]

HeapPlay ==
  /\ winner = "null"
  /\ plies < FramePlies
  /\ \E move \in {validMoves[i] : i \in 1 .. Len(validMoves)} : executeMoveH(move)
  /\ plies' = plies + 1
  /\ UNCHANGED <<quiet, query>>

\* getBestMove(board, turn, mustCaptureFrom) on the board object in play.
HeapBest ==
  /\ winner = "null"
  /\ ~mem.asked
  /\ \E order \in (IF Len(validMoves) = 0 THEN {<<>>}
                   ELSE Shuffles(Len(validMoves))) :
       \E res \in {getBestMoveH(mem.heap, Current, turn, mustCaptureFrom, order)} :
         mem' = [mem EXCEPT !.heap = Reachable(res.heap, Handles(Current)),
                            !.best = res.move,
                            !.asked = TRUE,
                            !.searched = Len(validMoves) > 1]
  /\ UNCHANGED <<board, turn, mustCaptureFrom, validMoves, winner, last, plies, quiet, query>>

FrameNext == HeapPlay \/ HeapBest

FrameSpec == FrameInit /\ [][FrameNext]_vars

(***************************************************************************)
(* The rules engine called on its own: one call of checkWinner,            *)
(* getMovesForPiece, getMaxCaptureChain or getValidMovesForPlayer on a     *)
(* board drawn from a family of small positions, light squares included.   *)
(***************************************************************************)
Content ==
  [ empty |-> Null,
    wm |-> Piece("white", FALSE), wk |-> Piece("white", TRUE),
    bm |-> Piece("black", FALSE), bk |-> Piece("black", TRUE) ]

\* The squares that vary and what may stand on each.
RuleSquares ==
  << [pos |-> Position(4, 4), may |-> {"empty", "wm", "wk", "bm"}],
     [pos |-> Position(3, 3), may |-> {"empty", "wm", "wk", "bm", "bk"}],
     [pos |-> Position(2, 2), may |-> {"empty", "wm", "bm", "bk"}],
     [pos |-> Position(1, 1), may |-> {"empty", "wm", "bm"}],
     [pos |-> Position(2, 4), may |-> {"empty", "wm", "bm"}] >>

RuleBoards ==
  { [r \in Rows |-> [c \in Rows |->
       IF \E k \in 1 .. Len(RuleSquares) : RuleSquares[k].pos = Position(r, c)
       THEN Content[f[CHOOSE k \in 1 .. Len(RuleSquares) :
                        RuleSquares[k].pos = Position(r, c)]]
       ELSE Null]] :
      f \in { g \in [1 .. Len(RuleSquares) -> DOMAIN Content] :
                \A k \in 1 .. Len(RuleSquares) : g[k] \in RuleSquares[k].may } }

Occupied(b) == { Position(r, c) : <<r, c>> \in { x \in Rows \X Rows : b[x[1]][x[2]] # Null } }

RulesInit ==
  /\ board \in RuleBoards
  /\ turn \in PlayerColor
  /\ mustCaptureFrom = NoPos
  /\ validMoves = <<>>
  /\ winner = "null"
  /\ last = NoLast
  /\ plies = 0
  /\ quiet = 0
  /\ query = NoQuery
  /\ mem = NoMem

\* checkWinner(board)
AskWinner ==
  /\ query = NoQuery
  /\ query' = [asked |-> TRUE, op |-> "checkWinner", result |-> checkWinner(board)]
  /\ UNCHANGED <<board, turn, mustCaptureFrom, validMoves, winner, last, plies, quiet, mem>>

\* getMovesForPiece(board, pos, board[pos]) for a piece of the board
AskMoves ==
  /\ query = NoQuery
  /\ \E pos \in Occupied(board) :
       query' = [ asked |-> TRUE, op |-> "getMovesForPiece", pos |-> pos,
                  moves |-> getMovesForPiece(board, pos, board[pos.row][pos.col]) ]
  /\ UNCHANGED <<board, turn, mustCaptureFrom, validMoves, winner, last, plies, quiet, mem>>

\* getValidMovesForPlayer(board, turn, null)
AskValid ==
  /\ query = NoQuery
  /\ query' = [ asked |-> TRUE, op |-> "getValidMovesForPlayer",
                moves |-> getValidMovesForPlayer(board, turn, NoPos) ]
  /\ UNCHANGED <<board, turn, mustCaptureFrom, validMoves, winner, last, plies, quiet, mem>>

RulesNext == AskWinner \/ AskMoves \/ AskValid

RulesSpec == RulesInit /\ [][RulesNext]_vars

(***************************************************************************)
(* A game from the initial layout: the host starts on createInitialBoard() *)
(* with white to move and plays legal moves through executeMove.           *)
(***************************************************************************)
GamePlies == 5

GameInit ==
  /\ board = createInitialBoard
  /\ turn = "white"
  /\ mustCaptureFrom = NoPos
  /\ \E loop \in {GameLoop(board, turn, mustCaptureFrom)} :
       /\ validMoves = loop.validMoves
       /\ winner = loop.winner
  /\ last = NoLast
  /\ plies = 0
  /\ quiet = 0
  /\ query = NoQuery
  /\ mem = NoMem

GamePlay ==
  /\ winner = "null"
  /\ plies < GamePlies
  /\ \E move \in {validMoves[i] : i \in 1 .. Len(validMoves)} : executeMove(move)
  /\ plies' = plies + 1
  /\ UNCHANGED <<quiet, query, mem>>

GameNext == GamePlay

GameSpec == GameInit /\ [][GameNext]_vars

(***************************************************************************)
(* The computer player called during play: getBestMove(board, turn,        *)
(* mustCaptureFrom) on the position reached, also when the player to move  *)
(* has no legal move.                                                      *)
(***************************************************************************)
AiPlies == 1

AiWhite == { Position(4, 3), Position(2, 1), Position(1, 0) }

AiBlack == { Position(3, 2), Position(1, 2), Position(1, 4), Position(0, 1) }

\* A position without captures in which black can step in front of the
\* white man on (5,2), which then takes two men in one turn.
AiOpenBoard ==
  PlaceBoard({Position(5, 2), Position(7, 6)}, {},
             {Position(3, 4), Position(2, 5)}, {})

\* Boards of men only; kings arise by promotion.
AiBoards ==
  { PlaceBoard(W, {}, B, {}) :
      W \in (SUBSET AiWhite) \ {{}}, B \in (SUBSET AiBlack) \ {{}} }
    \cup {AiOpenBoard}

AiInit ==
  /\ board \in AiBoards
  /\ turn \in PlayerColor
  /\ mustCaptureFrom = NoPos
  /\ \E loop \in {GameLoop(board, turn, mustCaptureFrom)} :
       /\ validMoves = loop.validMoves
       /\ winner = loop.winner
  /\ last = NoLast
  /\ plies = 0
  /\ quiet = 0
  /\ query = NoQuery
  /\ mem = NoMem

AiPlay ==
  /\ winner = "null"
  /\ plies < AiPlies
  /\ query = NoQuery
  /\ \E move \in {validMoves[i] : i \in 1 .. Len(validMoves)} : executeMove(move)
  /\ plies' = plies + 1
  /\ UNCHANGED <<quiet, query, mem>>

\* getBestMove(board, turn, mustCaptureFrom)
Think ==
  /\ query = NoQuery
  /\ \E order \in (IF Len(validMoves) = 0 THEN {<<>>}
                   ELSE Shuffles(Len(validMoves))) :
       \E res \in {getBestMove(board, turn, mustCaptureFrom, order)} :
         query' = [ asked |-> TRUE, op |-> "getBestMove", best |-> res.move,
                    nodes |-> res.nodes, calls |-> res.calls ]
  /\ UNCHANGED <<board, turn, mustCaptureFrom, validMoves, winner, last, plies, quiet, mem>>

AiNext == AiPlay \/ Think

AiSpec == AiInit /\ [][AiNext]_vars

(***************************************************************************)
(* The host with its history: executeMove, handleUndo, the AI hook and the *)
(* game-loop effect, in the local modes pvp and pve (the human is white,   *)
(* the AI black).  mem holds gameMode and history.                         *)
(***************************************************************************)
HostPlies == 3

HostWhite == { Position(3, 2), Position(4, 5), Position(6, 3) }

HostBlack == { Position(1, 2), Position(5, 4), Position(3, 6) }

\* Games in progress, men only; history holds the states since.
HostBoards ==
  { PlaceBoard(W, {}, B, {}) :
      W \in (SUBSET HostWhite) \ {{}}, B \in (SUBSET HostBlack) \ {{}} }

GameModes == {"pvp", "pve"}

HistoryState(b, t, lock) == [board |-> b, turn |-> t, mustCaptureFrom |-> lock]

\* The game-loop effect after a state change: skipped in pve while black
\* is to move or when there is a winner.
HostLoop(mode, b, t, lock, moves, won) ==
  IF won # "null" \/ (mode = "pve" /\ t = "black")
  THEN [validMoves |-> moves, winner |-> won]
  ELSE LET loop == GameLoop(b, t, lock)
       IN [ validMoves |-> loop.validMoves,
            winner |-> loop.winner ]

HostInit ==
  /\ board \in HostBoards
  /\ mem \in { [kind |-> "host", gameMode |-> mode, history |-> <<>>] :
                 mode \in GameModes }
  /\ turn \in (IF mem.gameMode = "pve" THEN {"white"} ELSE PlayerColor)
  /\ mustCaptureFrom = NoPos
  /\ \E loop \in {HostLoop(mem.gameMode, board, turn, mustCaptureFrom, <<>>, "null")} :
       /\ validMoves = loop.validMoves
       /\ winner = loop.winner
  /\ last = NoLast
  /\ plies = 0
  /\ quiet = 0
  /\ query = NoQuery

\* executeMove(move) with its history entry, followed by the effect.
HostMove(move) ==
  \E res \in {applyMove(board, move)} :
    \E next \in {IF res.turnEnded THEN Opponent(turn) ELSE turn} :
      \E loop \in {HostLoop(mem.gameMode, res.board, next, res.mustCaptureFrom,
                            validMoves, winner)} :
        /\ mem' = [mem EXCEPT !.history =
                     Append(@, HistoryState(board, turn, mustCaptureFrom))]
        /\ board' = res.board
        /\ mustCaptureFrom' = res.mustCaptureFrom
        /\ turn' = next
        /\ validMoves' = loop.validMoves
        /\ winner' = loop.winner
        /\ last' = [ kind |-> "move", before |-> board, player |-> turn,
                     lock |-> mustCaptureFrom, move |-> move ]
        /\ plies' = plies + 1
        /\ UNCHANGED <<quiet, query>>

\* handleSquareClick: a human plays one of the legal moves shown.
HumanMove ==
  /\ winner = "null"
  /\ ~(mem.gameMode = "pve" /\ turn = "black")
  /\ plies < HostPlies
  /\ \E move \in {validMoves[i] : i \in 1 .. Len(validMoves)} : HostMove(move)

\* The AI hook: getBestMove(board, 'black', mustCaptureFrom), white wins
\* when it returns null.
AiMove ==
  /\ winner = "null"
  /\ mem.gameMode = "pve"
  /\ turn = "black"
  /\ plies < HostPlies
  /\ \E n \in {Len(getValidMovesForPlayer(board, "black", mustCaptureFrom))} :
       \E order \in (IF n = 0 THEN {<<>>} ELSE Shuffles(n)) :
         \E best \in {getBestMove(board, "black", mustCaptureFrom, order).move} :
           IF best = <<>>
           THEN /\ winner' = "white"
                /\ last' = [kind |-> "resign"]
                /\ UNCHANGED <<board, turn, mustCaptureFrom, validMoves, plies,
                               quiet, query, mem>>
           ELSE HostMove(best[1])

\* The number of history entries handleUndo pops.
StepsToPop(mode, t, history) ==
  IF mode = "pve" /\ t = "white" /\ Len(history) >= 1
     /\ history[Len(history)].turn = "black"
  THEN 2
  ELSE 1

\* Mutant: the board and the turn are restored, the lock is not.
Restore_KeepsLock(target, newHistory) ==
  \E loop \in {HostLoop(mem.gameMode, target.board, target.turn,
                        mustCaptureFrom, validMoves, "null")} :
    /\ board' = target.board
    /\ turn' = target.turn
    /\ mustCaptureFrom' = mustCaptureFrom
    /\ mem' = [mem EXCEPT !.history = newHistory]
    /\ validMoves' = loop.validMoves
    /\ winner' = loop.winner

\* if (targetState) { setBoard ... setHistory(newHistory) }, then the effect.
Restore(target, newHistory) ==
  \E loop \in {HostLoop(mem.gameMode, target.board, target.turn,
                        target.mustCaptureFrom, validMoves, "null")} :
    /\ board' = target.board
    /\ turn' = target.turn
    /\ mustCaptureFrom' = target.mustCaptureFrom
    /\ mem' = [mem EXCEPT !.history = newHistory]
    /\ validMoves' = loop.validMoves
    /\ winner' = loop.winner

\* handleUndo: the winner is cleared; the state popped last is restored,
\* and nothing else changes when there are fewer entries than steps.
handleUndo ==
  /\ Len(mem.history) > 0
  /\ \E steps \in {StepsToPop(mem.gameMode, turn, mem.history)} :
       /\ IF steps <= Len(mem.history)
          THEN Restore(mem.history[Len(mem.history) - steps + 1],
                       SubSeq(mem.history, 1, Len(mem.history) - steps))
          ELSE \E loop \in {HostLoop(mem.gameMode, board, turn, mustCaptureFrom,
                                     validMoves, "null")} :
                 /\ validMoves' = loop.validMoves
                 /\ winner' = loop.winner
                 /\ UNCHANGED <<board, turn, mustCaptureFrom, mem>>
       /\ last' = [ kind |-> "undo", turn |-> turn, history |-> mem.history,
                    steps |-> steps, winner |-> winner ]
  /\ UNCHANGED <<plies, quiet, query>>

HostNext == HumanMove \/ AiMove \/ handleUndo

HostSpec == HostInit /\ [][HostNext]_vars

(***************************************************************************)
(* Properties                                                              *)
(***************************************************************************)
SetOf(seq) == {seq[i] : i \in 1 .. Len(seq)}

IsCapture(m) == Len(m.captures) > 0

\* The raw capture moves of the piece standing on pos (none for an empty cell).
RawCaptures(b, pos) ==
  IF b[pos.row][pos.col] = Null THEN <<>>
  ELSE SelectCaptures(getMovesForPiece(b, pos, b[pos.row][pos.col]))

\* The squares of the player's pieces a call with this lock looks at.
Eligible(b, player, lock) ==
  { Position(r, c) : <<r, c>> \in
      { x \in Rows \X Rows :
          /\ b[x[1]][x[2]].color = player
          /\ lock # NoPos => lock[1] = Position(x[1], x[2]) } }

HasCapture(b, player, lock) ==
  \E pos \in Eligible(b, player, lock) : Len(RawCaptures(b, pos)) > 0

NoMix(moves) ==
  \/ \A m \in SetOf(moves) : IsCapture(m)
  \/ \A m \in SetOf(moves) : ~IsCapture(m)

MandatoryCapture(b, player, lock, moves) ==
  /\ NoMix(moves)
  /\ HasCapture(b, player, lock) => \A m \in SetOf(moves) : IsCapture(m)

\* C1: the list getValidMovesForPlayer returns never mixes capture and
\* non-capture moves, and when an eligible piece of the player has a capture
\* every returned move is a capture; for the host's calls and for calls with
\* any other lock.
C1_NeverMixes ==
  /\ MandatoryCapture(board, turn, mustCaptureFrom, validMoves)
  /\ query.asked => MandatoryCapture(board, turn, query.lock, query.moves)

\* A capture is available while some piece of the player also has a simple move.
C1_Witness ==
  /\ HasCapture(board, turn, mustCaptureFrom)
  /\ Len(validMoves) > 0
  /\ \E pos \in Eligible(board, turn, NoPos) :
       \E m \in SetOf(getMovesForPiece(board, pos, board[pos.row][pos.col])) :
         ~IsCapture(m)

\* All capture chains of all of the player's pieces, as a set.
AllChains(b, player) ==
  UNION { SetOf(getMaxCaptureChain(b, pos, <<>>)) : pos \in Eligible(b, player, NoPos) }

\* The longest chain count of the piece on pos (0 without a capture).
PieceMax(b, pos) ==
  LET counts == {ch.count : ch \in SetOf(getMaxCaptureChain(b, pos, <<>>))}
  IN IF counts = {} THEN 0 ELSE CHOOSE n \in counts : \A k \in counts : k <= n

MaxOver(b, squares) ==
  LET counts == {PieceMax(b, pos) : pos \in squares} \cup {0}
  IN CHOOSE n \in counts : \A k \in counts : k <= n

\* C2: without a lock and with a capture available, the legal moves are
\* exactly the first steps of the chains whose count is the maximum over the
\* chains of all of the player's pieces; a piece whose longest chain is
\* shorter contributes no move, and no two moves share (from, to).
C2_GlobalMaxFirstSteps ==
  (mustCaptureFrom = NoPos /\ HasCapture(board, turn, NoPos)) =>
    LET M == MaxOver(board, Eligible(board, turn, NoPos))
    IN /\ SetOf(validMoves) =
            {ch.moves[1] : ch \in {x \in AllChains(board, turn) : x.count = M}}
       /\ \A m \in SetOf(validMoves) : PieceMax(board, m.from) = M
       /\ \A i, j \in 1 .. Len(validMoves) :
            MoveKey(validMoves[i]) = MoveKey(validMoves[j]) => i = j

\* Two pieces of the player can capture, one with a longer chain than the other.
C2_Witness ==
  /\ mustCaptureFrom = NoPos
  /\ Len(validMoves) > 0
  /\ \E p, q \in Eligible(board, turn, NoPos) :
       /\ PieceMax(board, q) > 0
       /\ PieceMax(board, p) > PieceMax(board, q)

\* C3: a turn that starts with a capture available and follows offered moves
\* through the lock until applyMove reports turnEnded removes exactly the
\* global maximum chain count M of opposing pieces; before it ends, fewer.
C3_PathsReachMaximum ==
  (last.kind = "move" /\ last.target > 0) =>
    LET removed == last.oppAtStart - Len(PiecesOf(board, Opponent(last.player)))
    IN /\ removed = last.taken
       /\ last.turnEnded => removed = last.target
       /\ ~last.turnEnded => removed < last.target

\* A turn of two or more hops has ended.
C3_Witness ==
  /\ last.kind = "move"
  /\ last.turnEnded
  /\ last.target >= 2
  /\ last.taken = last.target

FollowUp == getValidMovesForPlayer(board, last.player, <<last.move.to>>)

\* C4 as stated: turnEnded is false exactly when the follow-up call
\* getValidMovesForPlayer(result.board, mover colour, move.to) is non-empty and
\* the move did not promote, for every legal move.
C4_Original ==
  last.kind = "move" =>
    (~last.turnEnded <=> (Len(FollowUp) > 0 /\ ~last.promoted))

\* C4 amended: turnEnded is false exactly when the move captured, did not
\* promote, and the follow-up call is non-empty; a move that captured nothing
\* always ends the turn.
C4_TurnEndedConsistent ==
  last.kind = "move" =>
    /\ ~last.turnEnded <=> (last.captured /\ ~last.promoted /\ Len(FollowUp) > 0)
    /\ ~IsCapture(last.move) => last.turnEnded

\* A move that captured nothing left the moved piece with a capture.
C4_Witness ==
  /\ last.kind = "move"
  /\ ~IsCapture(last.move)
  /\ ~last.promoted
  /\ Len(FollowUp) > 0
  /\ last.turnEnded

FarRow(color) == IF color = "white" THEN 0 ELSE BOARD_SIZE - 1

LandedOnFarRow == last.move.to.row = FarRow(last.mover.color)

\* C5: applyMove reports captured exactly for a move with captures and
\* promoted exactly for a man landing on its far row; the turn continues,
\* locked to move.to, exactly when the move captured, did not promote and the
\* moved piece has a further capture from move.to; turnEnded holds exactly
\* when mustCaptureFrom is null.
C5_MoveResult ==
  last.kind = "move" =>
    LET further == Len(RawCaptures(board, last.move.to)) > 0
    IN /\ last.captured <=> IsCapture(last.move)
       /\ last.promoted <=> (~last.mover.isKing /\ LandedOnFarRow)
       /\ IF last.captured /\ ~last.promoted /\ further
          THEN ~last.turnEnded /\ last.mustCaptureFrom = <<last.move.to>>
          ELSE last.turnEnded /\ last.mustCaptureFrom = NoPos
       /\ last.turnEnded <=> last.mustCaptureFrom = NoPos

\* A capture that did not promote left the piece with a further capture.
C5_Witness ==
  /\ last.kind = "move"
  /\ last.captured
  /\ ~last.promoted
  /\ Len(RawCaptures(board, last.move.to)) > 0
  /\ ~last.turnEnded

\* C7: a man moved onto the far row of its colour is promoted and a king, and
\* the turn ends without a lock, also after a capture that leaves the new king
\* with another capture.
C7_PromotionEndsTurn ==
  (last.kind = "move" /\ ~last.mover.isKing /\ LandedOnFarRow) =>
    /\ last.promoted
    /\ board[last.move.to.row][last.move.to.col] = Piece(last.mover.color, TRUE)
    /\ last.turnEnded
    /\ last.mustCaptureFrom = NoPos
    /\ mustCaptureFrom = NoPos

\* A man captured onto its far row and the new king could capture again.
C7_Witness ==
  /\ last.kind = "move"
  /\ ~last.mover.isKing
  /\ LandedOnFarRow
  /\ last.captured
  /\ Len(RawCaptures(board, last.move.to)) > 0

\* C8: a king stays a king of its colour: the king that moved stands on
\* move.to unchanged with promoted = FALSE, and every other king that was not
\* captured stands where it stood.
C8_KingsStayKings ==
  last.kind = "move" =>
    /\ last.mover.isKing =>
         /\ ~last.promoted
         /\ board[last.move.to.row][last.move.to.col] = last.mover
    /\ \A r, c \in Rows :
         (/\ last.before[r][c].isKing
          /\ Position(r, c) # last.move.from
          /\ Position(r, c) \notin SetOf(last.move.captures))
         => board[r][c] = last.before[r][c]

\* A king moved onto row 0 or row 7.
C8_Witness ==
  /\ last.kind = "move"
  /\ last.mover.isKing
  /\ last.move.to.row \in {0, BOARD_SIZE - 1}
  /\ last.move.to.row = FarRow(last.mover.color)

\* The first steps of the longest chains of the piece on the locked square.
LockedFirstSteps(b, player, lock) ==
  IF ~isValidPos(lock[1].row, lock[1].col) THEN {}
  ELSE IF b[lock[1].row][lock[1].col].color # player THEN {}
  ELSE LET chains == SetOf(getMaxCaptureChain(b, lock[1], <<>>))
           M == PieceMax(b, lock[1])
       IN {ch.moves[1] : ch \in {x \in chains : x.count = M}}

LockRestricts(b, player, lock, moves) ==
  /\ \A m \in SetOf(moves) : m.from = lock[1] /\ IsCapture(m)
  /\ SetOf(moves) = LockedFirstSteps(b, player, lock)

\* C9: under a lock every returned move starts at the locked square and is a
\* capture, and the moves are the first steps of the longest chains of that
\* piece alone; captures of the player's other pieces are not offered.
C9_LockRestrictsToPiece ==
  /\ mustCaptureFrom # NoPos =>
       LockRestricts(board, turn, mustCaptureFrom, validMoves)
  /\ query.asked => LockRestricts(board, turn, query.lock, query.moves)

\* The locked piece captures while another piece of the player has a longer chain.
C9_Witness ==
  /\ query.asked
  /\ Len(query.moves) > 0
  /\ \E pos \in Eligible(board, turn, NoPos) :
       PieceMax(board, pos) > PieceMax(board, query.lock[1])

\* A lock that names no piece of the player with a capture.
DeadLock(b, player, lock) ==
  \/ ~isValidPos(lock[1].row, lock[1].col)
  \/ b[lock[1].row][lock[1].col] = Null
  \/ b[lock[1].row][lock[1].col].color # player
  \/ Len(RawCaptures(b, lock[1])) = 0

\* C10: a call with a lock whose square is off the grid, empty, held by the
\* opponent, or held by a piece without a capture returns the empty list; the
\* simple moves are never offered under a lock.
C10_DeadLockIsEmpty ==
  query.asked =>
    /\ DeadLock(board, turn, query.lock) => query.moves = <<>>
    /\ \A m \in SetOf(query.moves) : IsCapture(m)

\* The locked square holds a piece of the player that has simple moves but no capture.
C10_Witness ==
  /\ query.asked
  /\ isValidPos(query.lock[1].row, query.lock[1].col)
  /\ board[query.lock[1].row][query.lock[1].col].color = turn
  /\ Len(RawCaptures(board, query.lock[1])) = 0
  /\ Len(getMovesForPiece(board, query.lock[1],
                          board[query.lock[1].row][query.lock[1].col])) > 0
  /\ query.moves = <<>>

(***************************************************************************)
(* C6.  applyMove, getValidMovesForPlayer (with its chain simulation) and  *)
(* getBestMove (with its search) leave the board object they are given     *)
(* unchanged, the isKing flag of every piece included; and a board that    *)
(* applyMove returns shares no piece object with the board it was given,   *)
(* so no later applyMove alters an earlier board.                          *)
(***************************************************************************)
C6_InputBoardsUnchanged ==
  mem.kind = "frame" =>
    /\ \A i \in 1 .. Len(mem.inputs) : View(mem.heap, i) = mem.inputs[i]
    /\ \A i, j \in 1 .. Len(mem.inputs) :
         i # j => Refs(mem.heap, i) \cap Refs(mem.heap, j) = {}
    /\ board = mem.inputs[Current]

\* Two moves were applied, the second a promotion, and the search then ran
\* on the board the second one returned.
C6_Witness ==
  /\ mem.kind = "frame"
  /\ Len(mem.inputs) = 3
  /\ last.kind = "move"
  /\ last.promoted
  /\ mem.searched

Asked(op) == query.asked /\ query.op = op

CountOf(b, color) ==
  Cardinality({ x \in Rows \X Rows : b[x[1]][x[2]].color = color })

\* C11: checkWinner(board) returns the colour that has at least one piece
\* when the other colour has none, returns null when both colours have at
\* least one piece, and never returns the draw marker.
C11_CheckWinner ==
  Asked("checkWinner") =>
    /\ (CountOf(board, "white") >= 1 /\ CountOf(board, "black") = 0)
         => query.result = "white"
    /\ (CountOf(board, "black") >= 1 /\ CountOf(board, "white") = 0)
         => query.result = "black"
    /\ (CountOf(board, "white") >= 1 /\ CountOf(board, "black") >= 1)
         => query.result = "null"
    /\ query.result # "draw"

\* checkWinner was called on a board with two white pieces and no black one.
C11_Witness ==
  /\ Asked("checkWinner")
  /\ CountOf(board, "white") = 2
  /\ CountOf(board, "black") = 0
  /\ query.result = "white"

Dark(r, c) == (r + c) % 2 = 1

Step(fr, fc, tr, tc) == Move(Position(fr, fc), Position(tr, tc), <<>>)

\* C12: createInitialBoard() holds 12 black men on the dark squares of rows
\* 0-2, 12 white men on the dark squares of rows 5-7, no kings, and nothing
\* on rows 3-4; on it getValidMovesForPlayer(board, 'white', null) returns
\* exactly the 7 forward steps of the row-5 men onto row 4.
C12_InitialBoard ==
  plies = 0 =>
    /\ \A r, c \in Rows :
         board[r][c] = IF Dark(r, c) /\ r \in 0 .. 2 THEN Piece("black", FALSE)
                       ELSE IF Dark(r, c) /\ r \in 5 .. 7 THEN Piece("white", FALSE)
                       ELSE Null
    /\ CountOf(board, "black") = 12
    /\ CountOf(board, "white") = 12
    /\ turn = "white"
    /\ Len(validMoves) = 7
    /\ SetOf(validMoves) =
         { Step(5, 0, 4, 1), Step(5, 2, 4, 1), Step(5, 2, 4, 3), Step(5, 4, 4, 3),
           Step(5, 4, 4, 5), Step(5, 6, 4, 5), Step(5, 6, 4, 7) }

\* The game stands on the initial layout with white's moves computed.
C12_Witness ==
  /\ plies = 0
  /\ board = createInitialBoard
  /\ Len(validMoves) > 0
  /\ board[5][0] = Piece("white", FALSE)

OnBoard(r, c) == r \in Rows /\ c \in Rows

\* The row step toward the far row: -1 for white, +1 for black.
Forward(color) == IF color = "white" THEN -1 ELSE 1

\* The captures a man on pos has by the rule: over an adjacent opposing
\* piece on a forward diagonal onto the empty on-board square behind it.
ManCapturesByRule(b, pos) ==
  LET piece == b[pos.row][pos.col]
      dr == Forward(piece.color)
  IN { Move(pos, Position(pos.row + 2 * dr, pos.col + 2 * dc),
            <<Position(pos.row + dr, pos.col + dc)>>) :
         dc \in { d \in {-1, 1} :
                    /\ OnBoard(pos.row + dr, pos.col + d)
                    /\ b[pos.row + dr][pos.col + d].color = Opponent(piece.color)
                    /\ OnBoard(pos.row + 2 * dr, pos.col + 2 * d)
                    /\ b[pos.row + 2 * dr][pos.col + 2 * d] = Null } }

AskedMan ==
  /\ Asked("getMovesForPiece")
  /\ ~board[query.pos.row][query.pos.col].isKing

LoneManPair ==
  [EmptyBoard EXCEPT ![3][3] = Piece("white", FALSE), ![2][2] = Piece("black", FALSE)]

\* C13: the capture moves getMovesForPiece returns for a man are exactly the
\* jumps over an adjacent opposing piece on one of its two forward diagonals
\* onto the empty on-board square two steps away, each capturing that one
\* piece; none goes backward and none jumps a piece of the man's colour.  On
\* the board with only a white man on (3,3) and a black man on (2,2), white's
\* legal moves are the single move (3,3)->(1,1) capturing (2,2).
C13_ManCaptures ==
  /\ AskedMan =>
       LET caps == SelectCaptures(query.moves)
           piece == board[query.pos.row][query.pos.col]
       IN /\ SetOf(caps) = ManCapturesByRule(board, query.pos)
          /\ Len(caps) = Cardinality(SetOf(caps))
          /\ \A m \in SetOf(caps) :
               /\ m.from = query.pos
               /\ m.to.row - query.pos.row = 2 * Forward(piece.color)
               /\ Len(m.captures) = 1
               /\ board[m.captures[1].row][m.captures[1].col].color
                    = Opponent(piece.color)
  /\ (Asked("getValidMovesForPlayer") /\ board = LoneManPair /\ turn = "white") =>
       query.moves = << Move(Position(3, 3), Position(1, 1), <<Position(2, 2)>>) >>

\* A white man on (3,3) has one capture, over the black piece on (2,2),
\* while a black piece stands behind it on (4,4) before the empty (5,5) and
\* a white man stands on its other forward diagonal before the empty (1,5).
C13_Witness ==
  /\ AskedMan
  /\ query.pos = Position(3, 3)
  /\ board[3][3] = Piece("white", FALSE)
  /\ board[4][4].color = "black"
  /\ board[2][4].color = "white"
  /\ Len(SelectCaptures(query.moves)) = 1

Diagonals == { <<dr, dc>> : dr \in {-1, 1}, dc \in {-1, 1} }

\* The k-th square from pos in direction d.
Along(pos, d, k) == Position(pos.row + k * d[1], pos.col + k * d[2])

Cell(b, p) == b[p.row][p.col]

Inside(p) == OnBoard(p.row, p.col)

\* The distances of the pieces met from pos in direction d.
Met(b, pos, d) ==
  { k \in 1 .. BOARD_SIZE : Inside(Along(pos, d, k)) /\ Cell(b, Along(pos, d, k)) # Null }

Least(S) == CHOOSE n \in S : \A k \in S : n <= k

\* The captures a king on pos has by the rule in direction d: when the first
\* piece met is an opposing one, every empty on-board square beyond it and
\* before the next piece.
KingCapturesByRule(b, pos, d) ==
  LET met == Met(b, pos, d)
      first == Least(met)
      beyond == met \ {first}
  IN IF met = {} THEN {}
     ELSE IF Cell(b, Along(pos, d, first)).color # Opponent(Cell(b, pos).color)
     THEN {}
     ELSE { Move(pos, Along(pos, d, k), <<Along(pos, d, first)>>) :
              k \in { j \in (first + 1) .. BOARD_SIZE :
                        /\ Inside(Along(pos, d, j))
                        /\ beyond # {} => j < Least(beyond) } }

AskedKing ==
  /\ Asked("getMovesForPiece")
  /\ board[query.pos.row][query.pos.col].isKing

\* A king on (4,4) whose first piece toward (0,0) is an enemy on (2,2), with
\* nothing behind it.
KingFacesLoneEnemy ==
  /\ AskedKing
  /\ query.pos = Position(4, 4)
  /\ board[3][3] = Null
  /\ board[2][2].color = Opponent(board[4][4].color)
  /\ board[1][1] = Null

\* C14: the capture moves getMovesForPiece returns for a king are, in each
\* diagonal direction, exactly the empty squares beyond the first piece met
\* when that piece is an opposing one, up to the next piece or the edge, each
\* capturing that one piece; no square short of the enemy is a landing, a
\* friendly first piece gives no capture, and neither do two pieces standing
\* one directly behind the other.  For a king on (4,4) and a lone enemy on
\* (2,2) the landings toward (0,0) are exactly (1,1) and (0,0).
C14_KingCaptures ==
  /\ AskedKing =>
       LET caps == SelectCaptures(query.moves)
       IN /\ SetOf(caps) =
               UNION { KingCapturesByRule(board, query.pos, d) : d \in Diagonals }
          /\ Len(caps) = Cardinality(SetOf(caps))
          /\ \A m \in SetOf(caps) : Len(m.captures) = 1
  /\ KingFacesLoneEnemy =>
       { m.to : m \in { x \in SetOf(SelectCaptures(query.moves)) :
                          x.to.row < 4 /\ x.to.col < 4 } }
         = { Position(1, 1), Position(0, 0) }

\* getMovesForPiece was called for the king on (4,4) facing the lone enemy.
C14_Witness ==
  /\ KingFacesLoneEnemy
  /\ Len(SelectCaptures(query.moves)) >= 2

\* A king whose first piece in a direction is an enemy with another piece
\* directly behind it: for the king on (4,4), pieces on (3,3) and (2,2).
C14_BlockedWitness ==
  /\ AskedKing
  /\ query.pos = Position(4, 4)
  /\ board[3][3].color = Opponent(board[4][4].color)
  /\ board[2][2] # Null

\* The simple moves of the piece on pos by the rule: a man steps onto an
\* empty forward diagonal square; a king reaches every square of a diagonal
\* before the first piece on it.
SimpleByRule(b, pos) ==
  IF Cell(b, pos).isKing
  THEN { Move(pos, Along(pos, d[1], d[2]), <<>>) :
           d \in { x \in Diagonals \X (1 .. BOARD_SIZE) :
                     /\ Inside(Along(pos, x[1], x[2]))
                     /\ \A k \in Met(b, pos, x[1]) : x[2] < k } }
  ELSE { Move(pos, Position(pos.row + Forward(Cell(b, pos).color), pos.col + dc), <<>>) :
           dc \in { d \in {-1, 1} :
                      /\ OnBoard(pos.row + Forward(Cell(b, pos).color), pos.col + d)
                      /\ b[pos.row + Forward(Cell(b, pos).color)][pos.col + d] = Null } }

CapturesByRule(b, pos) ==
  IF Cell(b, pos).isKing
  THEN UNION { KingCapturesByRule(b, pos, d) : d \in Diagonals }
  ELSE ManCapturesByRule(b, pos)

Owned(b, player) == { p \in Occupied(b) : Cell(b, p).color = player }

NoCaptureByRule(b, player) == \A p \in Owned(b, player) : CapturesByRule(b, p) = {}

\* C15: when no piece of the player has a capture and no lock is set,
\* getValidMovesForPlayer returns exactly the simple moves of all of the
\* player's pieces, each once: a man's steps onto its empty forward diagonal
\* squares, a king's slides to every empty square of each diagonal before the
\* first piece; every move has no captures and an empty destination.
C15_SimpleMoves ==
  (Asked("getValidMovesForPlayer") /\ NoCaptureByRule(board, turn)) =>
    /\ SetOf(query.moves) = UNION { SimpleByRule(board, p) : p \in Owned(board, turn) }
    /\ Len(query.moves) = Cardinality(SetOf(query.moves))
    /\ \A m \in SetOf(query.moves) :
         /\ m.captures = <<>>
         /\ Cell(board, m.to) = Null

\* The player has a man and a king, no capture, and the king's slide toward
\* (0,0) is stopped by a piece.
C15_Witness ==
  /\ Asked("getValidMovesForPlayer")
  /\ NoCaptureByRule(board, turn)
  /\ turn = "white"
  /\ board[4][4] = Piece("white", TRUE)
  /\ board[2][2] = Piece("white", FALSE)
  /\ board[3][3] = Null
  /\ Len(query.moves) > 3

PieceCount(b) == Cardinality(Occupied(b))

ChainsOf(b, player, lock) ==
  UNION { SetOf(getMaxCaptureChain(b, pos, <<>>)) : pos \in Eligible(b, player, lock) }

\* The piece that runs chain ch on board b.
Runner(b, ch) == Cell(b, ch.moves[1].from)

\* Move i of chain ch lands a man on its far row.
PromotingAt(b, ch, i) ==
  /\ ~Runner(b, ch).isKing
  /\ ch.moves[i].to.row = FarRow(Runner(b, ch).color)

LongestOf(chains) ==
  LET counts == {ch.count : ch \in chains} \cup {0}
  IN CHOOSE n \in counts : \A k \in counts : k <= n

\* C18: in the chains getMaxCaptureChain enumerates, a capture that lands a
\* man on its far row is the last move of its chain, and the chain's count
\* is the number of its captures, the promoting jump included; the first
\* step of a promoting chain of count k is offered only if some chain of the
\* maximum count starts with it, so a promoting capture is never offered
\* while a longer chain exists.
C18_PromotionEndsChain ==
  LET chains == ChainsOf(board, turn, mustCaptureFrom)
      M == LongestOf(chains)
  IN /\ \A ch \in chains :
          /\ ch.count = Len(ch.moves)
          /\ \A i \in 1 .. Len(ch.moves) :
               /\ Len(ch.moves[i].captures) = 1
               /\ PromotingAt(board, ch, i) => i = Len(ch.moves)
          /\ (PromotingAt(board, ch, Len(ch.moves)) /\ ch.count < M) =>
               (ch.moves[1] \in SetOf(validMoves) =>
                  \E other \in chains :
                    other.count = M /\ other.moves[1] = ch.moves[1])
     /\ \A m \in SetOf(validMoves) :
          (/\ IsCapture(m)
           /\ ~Cell(board, m.from).isKing
           /\ m.to.row = FarRow(Cell(board, m.from).color)) => M = 1

\* The white man on (2,1) can capture onto its far row at (0,3), from where
\* a king could jump the black piece on (1,4); the white man on (4,3) has a
\* chain of two captures, and the promoting capture is not offered.
C18_Witness ==
  /\ turn = "white"
  /\ mustCaptureFrom = NoPos
  /\ board[2][1] = Piece("white", FALSE)
  /\ board[1][2].color = "black"
  /\ board[0][3] = Null
  /\ board[1][4].color = "black"
  /\ board[2][5] = Null
  /\ PieceMax(board, Position(4, 3)) = 2
  /\ Len(validMoves) > 0
  /\ \A m \in SetOf(validMoves) : m.from # Position(2, 1)

(***************************************************************************)
(* C16: getBestMove returns no move exactly when the legal set is empty;   *)
(* otherwise the move it returns is in the legal set, and a single legal   *)
(* move is returned without any call of minimax.                           *)
(***************************************************************************)
LegalNow == getValidMovesForPlayer(board, turn, mustCaptureFrom)

C16_BestMoveIsLegal ==
  Asked("getBestMove") =>
    /\ (query.best = <<>>) <=> (Len(LegalNow) = 0)
    /\ Len(query.best) <= 1
    /\ query.best # <<>> => query.best[1] \in SetOf(LegalNow)
    /\ Len(LegalNow) = 1 =>
         /\ query.best = <<LegalNow[1]>>
         /\ query.nodes = {}
         /\ query.calls = {}

\* A single legal move was returned.
C16_Witness ==
  /\ Asked("getBestMove")
  /\ Len(LegalNow) = 1
  /\ query.best = LegalNow

\* getBestMove was asked of a player without moves.
C16_NoMoveWitness ==
  /\ Asked("getBestMove")
  /\ Len(LegalNow) = 0
  /\ query.best = <<>>

\* A move was chosen by the search.
C16_SearchWitness ==
  /\ Asked("getBestMove")
  /\ Len(LegalNow) > 1
  /\ query.nodes # {}
  /\ query.best # <<>>

(***************************************************************************)
(* C19: in every call the search makes for a move, the player and the      *)
(* role of the child differ from the node's exactly when applyMove         *)
(* reports turnEnded for that move; the child is searched with the         *)
(* returned mustCaptureFrom as its lock.                                   *)
(***************************************************************************)
CallFollowsTurn(c) ==
  LET res == applyMove(c.board, c.move)
  IN /\ (c.nextPlayer # c.player) <=> res.turnEnded
     /\ (c.nextIsMaximizing # c.isMaximizing) <=> res.turnEnded
     /\ c.nextPlayer \in PlayerColor
     /\ c.nextLock = res.mustCaptureFrom
     /\ \E n \in query.nodes :
          /\ n.board = res.board
          /\ n.player = c.nextPlayer
          /\ n.isMaximizing = c.nextIsMaximizing
          /\ n.lock = c.nextLock

C19_RoleFollowsTurn ==
  Asked("getBestMove") => \A c \in query.calls : CallFollowsTurn(c)

\* A move of a maximizing node that did not end the turn: the child is
\* searched for the same player, locked to the landing square.
C19_Witness ==
  /\ Asked("getBestMove")
  /\ \E c \in query.calls :
       /\ ~applyMove(c.board, c.move).turnEnded
       /\ c.isMaximizing
       /\ c.nextIsMaximizing
       /\ c.nextPlayer = c.player
       /\ c.nextLock = <<c.move.to>>

\* The same in a minimizing node.
C19_MinimizingWitness ==
  /\ Asked("getBestMove")
  /\ \E c \in query.calls :
       /\ ~applyMove(c.board, c.move).turnEnded
       /\ ~c.isMaximizing
       /\ ~c.nextIsMaximizing
       /\ c.nextPlayer = c.player

(***************************************************************************)
(* C20: a minimax node on a board with a winner returns +10000 when the    *)
(* winner is the root player and -10000 otherwise; without a winner it     *)
(* returns the static heuristic at depth 0, and at depth > 0 with no legal *)
(* move for the player to move it returns -10000 when maximizing and       *)
(* +10000 when minimizing.  Scores are kept in tenths.                     *)
(***************************************************************************)
WinnerByCount(b) ==
  IF CountOf(b, "white") = 0 THEN "black"
  ELSE IF CountOf(b, "black") = 0 THEN "white"
  ELSE "null"

Starved(n) ==
  /\ WinnerByCount(n.board) = "null"
  /\ n.depth > 0
  /\ Len(getValidMovesForPlayer(n.board, n.player, n.lock)) = 0

NodeValueByRule(n) ==
  LET won == WinnerByCount(n.board)
  IN /\ won = n.root => n.value = 10 * 10000
     /\ (won # "null" /\ won # n.root) => n.value = 0 - 10 * 10000
     /\ (won = "null" /\ n.depth = 0) => n.value = evaluateBoard(n.board, n.root)
     /\ Starved(n) =>
          n.value = IF n.isMaximizing THEN 0 - 10 * 10000 ELSE 10 * 10000

C20_NodeValues ==
  Asked("getBestMove") => \A n \in query.nodes : NodeValueByRule(n)

\* A minimizing node whose player has no legal move.
C20_Witness ==
  /\ Asked("getBestMove")
  /\ \E n \in query.nodes : Starved(n) /\ ~n.isMaximizing

\* A maximizing node whose player has no legal move.
C20_MaximizingWitness ==
  /\ Asked("getBestMove")
  /\ \E n \in query.nodes : Starved(n) /\ n.isMaximizing

\* Nodes with a winner on either side, and a leaf scored by the heuristic.
C20_WinnerWitness ==
  /\ Asked("getBestMove")
  /\ \E n \in query.nodes : WinnerByCount(n.board) = n.root
  /\ \E n \in query.nodes : WinnerByCount(n.board) = Opponent(n.root)
  /\ \E n \in query.nodes : WinnerByCount(n.board) = "null" /\ n.depth = 0

(***************************************************************************)
(* C21: every recursive minimax call is made with the remaining depth      *)
(* reduced by exactly 1, also for a hop that does not end the turn; calls  *)
(* are made only at depth 1 .. DEPTH and nodes have depth 0 .. DEPTH - 1,  *)
(* so no path of the search applies more than DEPTH moves.                 *)
(***************************************************************************)
ChildOf(c, n) ==
  /\ n.board = applyMove(c.board, c.move).board
  /\ n.player = c.nextPlayer
  /\ n.lock = c.nextLock
  /\ n.depth = c.nextDepth

C21_DepthDecreases ==
  Asked("getBestMove") =>
    /\ \A c \in query.calls :
         /\ c.depth \in 1 .. DEPTH
         /\ c.nextDepth = c.depth - 1
         /\ \E n \in query.nodes : ChildOf(c, n)
    /\ \A n \in query.nodes : n.depth \in 0 .. (DEPTH - 1)

\* A hop of a multi-jump inside the search used up one level of depth, and
\* a path of the search ended at depth 0 in the middle of a multi-jump.
C21_Witness ==
  /\ Asked("getBestMove")
  /\ \E c \in query.calls :
       /\ ~applyMove(c.board, c.move).turnEnded
       /\ c.depth < DEPTH
       /\ c.nextDepth = c.depth - 1
  /\ \E n \in query.nodes : n.depth = 0 /\ n.lock # NoPos

(***************************************************************************)
(* C23: every node the search visits is maximizing exactly when the player *)
(* to move at that node is the root player, and the root player of every   *)
(* node is the player getBestMove was called for.                          *)
(***************************************************************************)
C23_MaximizingIsRootPlayer ==
  Asked("getBestMove") =>
    \A n \in query.nodes :
      /\ n.root = turn
      /\ n.isMaximizing <=> (n.player = n.root)

\* Nodes of both roles that were entered in the middle of a multi-jump, where
\* the role does not follow from the parity of the depth.
C23_Witness ==
  /\ Asked("getBestMove")
  /\ \E n \in query.nodes : n.lock # NoPos /\ n.isMaximizing /\ n.player = turn
  /\ \E n \in query.nodes : n.lock # NoPos /\ ~n.isMaximizing /\ n.player # turn

(***************************************************************************)
(* C22: the value minimax computes for every root move with alpha-beta     *)
(* pruning equals the value of the same search without pruning, and the    *)
(* move getBestMove returns has the largest such value among the legal     *)
(* moves, whatever the order of the shuffle.                               *)
(***************************************************************************)
RECURSIVE PlainMinimax(_, _, _, _, _, _)
RECURSIVE PlainBest(_, _, _, _, _, _, _)

\* The extreme of the children's values, every child searched.
PlainBest(b, moves, i, depth, isMaximizing, currentPlayer, rootPlayer) ==
  LET res == applyMove(b, moves[i])
      v == PlainMinimax(res.board, depth - 1,
                        IF res.turnEnded THEN ~isMaximizing ELSE isMaximizing,
                        res.mustCaptureFrom,
                        IF res.turnEnded THEN Opponent(currentPlayer) ELSE currentPlayer,
                        rootPlayer)
  IN IF i = Len(moves) THEN v
     ELSE LET rest == PlainBest(b, moves, i + 1, depth, isMaximizing,
                                currentPlayer, rootPlayer)
          IN IF isMaximizing THEN Max(v, rest) ELSE Min(v, rest)

PlainMinimax(b, depth, isMaximizing, lock, currentPlayer, rootPlayer) ==
  IF depth = 0 \/ WinnerByCount(b) # "null" THEN evaluateBoard(b, rootPlayer)
  ELSE LET moves == getValidMovesForPlayer(b, currentPlayer, lock)
       IN IF Len(moves) = 0
          THEN (IF isMaximizing THEN 0 - 10 * 10000 ELSE 10 * 10000)
          ELSE PlainBest(b, moves, 1, depth, isMaximizing, currentPlayer, rootPlayer)

\* The unpruned value of a root move of player on board b.
PlainRootValue(b, move, player) ==
  LET res == applyMove(b, move)
  IN PlainMinimax(res.board, DEPTH - 1, ~res.turnEnded, res.mustCaptureFrom,
                  IF res.turnEnded THEN Opponent(player) ELSE player, player)

C22_PruningKeepsValue ==
  (Asked("getBestMove") /\ Len(LegalNow) > 1) =>
    /\ \A n \in query.nodes :
         n.depth = DEPTH - 1 =>
           n.value = PlainMinimax(n.board, n.depth, n.isMaximizing, n.lock,
                                  n.player, n.root)
    /\ \A m \in SetOf(LegalNow) :
         PlainRootValue(board, m, turn) <= PlainRootValue(board, query.best[1], turn)

\* A search in which a loop was cut off (a node has more legal moves than
\* calls were made from it) and the root moves differ in value.
C22_Witness ==
  /\ Asked("getBestMove")
  /\ Len(LegalNow) > 1
  /\ \E n \in query.nodes :
       /\ n.depth > 0
       /\ WinnerByCount(n.board) = "null"
       /\ Cardinality({ c \in query.calls :
                          c.board = n.board /\ c.player = n.player
                          /\ c.depth = n.depth })
            < Len(getValidMovesForPlayer(n.board, n.player, n.lock))
  /\ \E m \in SetOf(LegalNow) :
       PlainRootValue(board, m, turn) < PlainRootValue(board, query.best[1], turn)

(***************************************************************************)
(* C24: after executeMove the turn has passed to the opponent exactly when *)
(* applyMove reported turnEnded for the move, and then there is no lock;   *)
(* otherwise the same player is to move and the lock is move.to.  So a     *)
(* player keeps the move throughout a capture chain.                       *)
(***************************************************************************)
C24_TurnPassesOnTurnEnded ==
  last.kind = "move" =>
    LET res == applyMove(last.before, last.move)
    IN /\ board = res.board
       /\ (turn # last.player) <=> res.turnEnded
       /\ turn \in PlayerColor
       /\ res.turnEnded => mustCaptureFrom = NoPos
       /\ ~res.turnEnded => (turn = last.player /\ mustCaptureFrom = <<last.move.to>>)
       /\ last.lock # NoPos => last.player = last.mover.color

\* The second hop of a chain did not end the turn either: the same player
\* is to move a third time, locked to the landing square.
C24_Witness ==
  /\ last.kind = "move"
  /\ last.lock # NoPos
  /\ ~applyMove(last.before, last.move).turnEnded
  /\ turn = last.player
  /\ mustCaptureFrom = <<last.move.to>>

\* A move that ended the turn: the opponent is to move without a lock.
C24_PassWitness ==
  /\ last.kind = "move"
  /\ applyMove(last.before, last.move).turnEnded
  /\ turn = Opponent(last.player)
  /\ mustCaptureFrom = NoPos

(***************************************************************************)
(* C25: in every host state reached through executeMove of legal moves,    *)
(* the AI's moves and undo, a lock names a square holding a piece of the   *)
(* player to move that has a capture; the legal moves under the lock are   *)
(* not empty, and no winner is declared while a lock is set.               *)
(***************************************************************************)
C25_LockIsLive ==
  mustCaptureFrom # NoPos =>
    /\ isValidPos(mustCaptureFrom[1].row, mustCaptureFrom[1].col)
    /\ Cell(board, mustCaptureFrom[1]) # Null
    /\ Cell(board, mustCaptureFrom[1]).color = turn
    /\ Len(RawCaptures(board, mustCaptureFrom[1])) > 0
    /\ Len(getValidMovesForPlayer(board, turn, mustCaptureFrom)) > 0
    /\ winner = "null"

\* An undo restored a state in the middle of a capture chain.
C25_Witness ==
  /\ last.kind = "undo"
  /\ mustCaptureFrom # NoPos
  /\ Len(mem.history) > 0

(***************************************************************************)
(* C26 as claimed: in pve, an undo invoked while white is to move restores *)
(* a state in which white is to move; when the last history entry is       *)
(* white's (white is in the middle of a multi-jump) it goes back exactly   *)
(* one entry.                                                              *)
(***************************************************************************)
UndoByWhiteInPve ==
  /\ last.kind = "undo"
  /\ mem.gameMode = "pve"
  /\ last.turn = "white"

C26_UndoReturnsToWhite ==
  UndoByWhiteInPve =>
    /\ turn = "white"
    /\ last.history[Len(last.history)].turn = "white" =>
         /\ Len(mem.history) = Len(last.history) - 1
         /\ board = last.history[Len(last.history)].board
         /\ mustCaptureFrom = last.history[Len(last.history)].mustCaptureFrom

\* What does hold: the undo goes back to white's turn unless the two newest
\* history entries are both black's, that is unless the AI's last turn had
\* two or more hops.
C26_UndoAfterSingleReply ==
  (UndoByWhiteInPve
     /\ ~(/\ Len(last.history) >= 2
          /\ last.history[Len(last.history)].turn = "black"
          /\ last.history[Len(last.history) - 1].turn = "black")) =>
    turn = "white"

\* An undo after an AI turn of one move went back two entries to white.
C26_SingleReplyWitness ==
  /\ UndoByWhiteInPve
  /\ last.steps = 2
  /\ turn = "white"
  /\ Len(mem.history) = Len(last.history) - 2

\* An undo in the middle of white's multi-jump went back one entry.
C26_MidJumpWitness ==
  /\ UndoByWhiteInPve
  /\ last.steps = 1
  /\ last.history[Len(last.history)].mustCaptureFrom = NoPos
  /\ Len(mem.history) = Len(last.history) - 1
  /\ turn = "white"

(***************************************************************************)
(* C27: a move played keeps the number of the mover's pieces, reduces the  *)
(* number of opposing pieces by the length of move.captures, which is 0 or *)
(* 1; each captured square held an opposing piece before and is empty      *)
(* after, move.from is empty after and move.to holds the moving piece (a   *)
(* king if it was one or was promoted).  Piece counts never increase.      *)
(***************************************************************************)
C27_PieceCounts ==
  last.kind = "move" =>
    LET before == last.before
        move == last.move
        mover == Cell(before, move.from)
        opp == Opponent(last.player)
    IN /\ mover.color = last.player
       /\ CountOf(board, last.player) = CountOf(before, last.player)
       /\ Len(move.captures) \in {0, 1}
       /\ CountOf(board, opp) = CountOf(before, opp) - Len(move.captures)
       /\ \A i \in 1 .. Len(move.captures) :
            /\ Cell(before, move.captures[i]).color = opp
            /\ Cell(board, move.captures[i]) = Null
       /\ Cell(board, move.from) = Null
       /\ Cell(board, move.to).color = mover.color
       /\ mover.isKing => Cell(board, move.to).isKing
       /\ Cell(before, move.to) = Null
       /\ PieceCount(board) <= PieceCount(before)

\* A king took a piece from a distance and landed beyond it.
C27_Witness ==
  /\ last.kind = "move"
  /\ Len(last.move.captures) = 1
  /\ Cell(last.before, last.move.from).isKing
  /\ Cell(board, last.move.captures[1]) = Null
  /\ CountOf(board, Opponent(last.player))
       = CountOf(last.before, Opponent(last.player)) - 1

(***************************************************************************)
(* C28: on every board reached by legal moves no man stands on the         *)
(* promotion row of its colour: no white man on row 0, no black man on     *)
(* row 7.                                                                  *)
(***************************************************************************)
ManOnFarRow(b) ==
  \E c \in Rows :
    \/ b[0][c] = Piece("white", FALSE)
    \/ b[BOARD_SIZE - 1][c] = Piece("black", FALSE)

C28_NoManOnFarRow == ~ManOnFarRow(board)

\* A man has just moved onto its far row and stands there as a king.
C28_Witness ==
  /\ last.kind = "move"
  /\ ~last.mover.isKing
  /\ last.move.to.row = FarRow(last.mover.color)
  /\ Cell(board, last.move.to) = Piece(last.mover.color, TRUE)

(***************************************************************************)
(* C29: every chain getMaxCaptureChain returns has a count equal to its    *)
(* number of moves and at most the number of opposing pieces; its moves    *)
(* follow one another, each takes one piece, and no square is captured     *)
(* twice.  The captures of a running turn never exceed the opposing pieces *)
(* at its start, and a turn that continues has taken fewer than that.      *)
(***************************************************************************)
ChainIsBounded(b, ch) ==
  LET n == Len(ch.moves)
  IN /\ ch.count = n
     /\ n >= 1
     /\ n <= CountOf(b, Opponent(Runner(b, ch).color))
     /\ \A i \in 1 .. n : Len(ch.moves[i].captures) = 1
     /\ \A i \in 1 .. (n - 1) : ch.moves[i + 1].from = ch.moves[i].to
     /\ Cardinality({ ch.moves[i].captures[1] : i \in 1 .. n }) = n
     /\ \A i \in 1 .. n :
          Cell(b, ch.moves[i].captures[1]).color = Opponent(Runner(b, ch).color)

C29_ChainsAreBounded ==
  /\ \A player \in PlayerColor :
       \A ch \in ChainsOf(board, player, NoPos) : ChainIsBounded(board, ch)
  /\ last.kind = "move" =>
       /\ last.taken <= last.oppAtStart
       /\ ~last.turnEnded => last.taken < last.oppAtStart
       /\ last.taken = last.oppAtStart => last.turnEnded

\* A turn of two hops has ended, and the player now to move has a chain of
\* two or more captures.
C29_Witness ==
  /\ last.kind = "move"
  /\ last.taken >= 2
  /\ last.turnEnded
  /\ \E ch \in ChainsOf(board, turn, NoPos) : ch.count >= 2

(***************************************************************************)
(* C30: when checkWinner(board) returns a colour c, the other colour has   *)
(* no legal move without a lock; so on a board where the side to move has  *)
(* been annihilated the host, which only tests for 'no legal moves',       *)
(* declares the winner checkWinner names: through the game-loop effect,    *)
(* or in pve on black's turn through getBestMove returning no move.        *)
(***************************************************************************)
AiToMove == mem.gameMode = "pve" /\ turn = "black"

C30_HostAgreesWithCheckWinner ==
  LET c == checkWinner(board)
  IN c # "null" =>
       /\ CountOf(board, Opponent(c)) = 0
       /\ Len(getValidMovesForPlayer(board, Opponent(c), NoPos)) = 0
       /\ turn = Opponent(c) =>
            IF AiToMove /\ last.kind # "resign"
            THEN /\ winner = "null"
                 /\ getBestMove(board, "black", mustCaptureFrom, <<>>).move = <<>>
            ELSE winner = c

\* A human with no piece left is to move and the effect has declared the
\* other colour.
C30_Witness ==
  /\ CountOf(board, turn) = 0
  /\ ~AiToMove
  /\ last.kind = "move"
  /\ winner = checkWinner(board)
  /\ winner = Opponent(turn)

\* The AI, left without a piece, got no move from getBestMove and white was
\* declared.
C30_ResignWitness ==
  /\ last.kind = "resign"
  /\ CountOf(board, "black") = 0
  /\ winner = "white"
  /\ checkWinner(board) = "white"

====
